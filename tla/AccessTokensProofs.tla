------------------------- MODULE AccessTokensProofs -------------------------
(* Safety of AccessTokens for every set of accounts, role sets, requests and  *)
(* tokens: it implements AuthTokens, and the scopes of access tokens are      *)
(* those of roles their users had.                                            *)
EXTENDS AccessTokens, AuthTokensProofs

Entitling == "PROFILE_DISABLE_SELF"

\* What a request knows of its user's roles.
Informed(r) ==
    LET q == req[r]
    IN  /\ q.pc # "idle" => roles[q.user] \in held[r]
        /\ q.pc \notin {"idle", "token", "user"} => ses[r].roles \in held[r]
        /\ q.pc \in {"issue", "respond"} =>
             \E R \in held[r] : ses[r].mint.scopes \subseteq Possessed(R)
        /\ q.pc # "idle" => \A R \in held[r] : Entitling \in Possessed(R) => q.user \in entitled
        /\ q.pc = "respond" => tokens[q.new].user = q.user
        /\ q.pc # "idle" /\ q.op = "disable" => q.user \in entitled

\* Whoever can disable an account was once entitled to.
AccessEntitled ==
    \A j \in delivered : Entitling \in access[j].scopes => tokens[j].user \in entitled

AccessInv ==
    /\ IInv
    /\ AccessTypeOK
    /\ \A r \in Reqs : Informed(r)
    /\ AccessEntitled
    /\ DisabledByRight

-----------------------------------------------------------------------------
(* Scopes.                                                                    *)

\* Every role's scopes are known to the application.
LEMMA ScopesKnown ==
    ASSUME NEW role PROVE ScopesOf(role) \subseteq OAUTH_SCOPES
<1>1. REGULAR_USER_SCOPES \subseteq OAUTH_SCOPES /\ GUEST_USER_SCOPES \subseteq OAUTH_SCOPES
  BY DEF REGULAR_USER_SCOPES, GUEST_USER_SCOPES, OAUTH_SCOPES
<1>2. {"SOME_PREMIUM_FEATURE", "SOME_CONTENT_ADMIN_FEATURE", "USERS_LIST", "USERS_READ_ANY",
       "BANS_CREATE", "BANS_READ_HISTORY_ANY", "BANS_DEACTIVATE"} \subseteq OAUTH_SCOPES
  BY DEF OAUTH_SCOPES
<1> HIDE DEF REGULAR_USER_SCOPES, GUEST_USER_SCOPES, OAUTH_SCOPES
<1> QED
  BY <1>1, <1>2 DEF ScopesOf

\* What is granted is possessed, whatever was asked for.
LEMMA GrantedPossessed ==
    ASSUME NEW R, NEW wants, Grantable(R, wants)
    PROVE  Granted(R, wants) \subseteq Possessed(R) \cap OAUTH_SCOPES
<1>1. CASE "ADMINISTRATOR" \in R
  <2>1. OAUTH_SCOPES \subseteq Possessed(R)
    BY <1>1, ScopesOf("ADMINISTRATOR") = OAUTH_SCOPES DEF Possessed, ScopesOf
  <2> QED
    BY <2>1 DEF Granted
<1>2. CASE wants \subseteq Possessed(R)
  BY <1>2 DEF Granted
<1> QED
  BY <1>1, <1>2 DEF Grantable

-----------------------------------------------------------------------------
(* AccessTokens implements AuthTokens.                                        *)

\* Every step is a step of AuthTokens, or leaves its variables alone.
LEMMA StepRefines == [AccessNext]_avars => [Next]_vars
BY DEF AccessNext, AccessBegin, AccessStep, AccessCrash, AccessOutside, ChangeRoles,
       Next, avars

\* Roles and access tokens restrict the behaviours of the refresh tokens and add
\* none, so everything proved of AuthTokens holds here.
THEOREM AccessRefinement == AccessSpec => Spec
<1>1. AccessInit => Init
  BY DEF AccessInit
<1> QED
  BY <1>1, StepRefines, PTL DEF AccessSpec, Spec

-----------------------------------------------------------------------------
(* The steps of AuthTokens, as far as they matter here.                       *)

\* Tokens only move forward.
LEMMA StepAdvances ==
    ASSUME IInv, [Next]_vars PROVE TokensAdvance
<1>1. CASE UNCHANGED tokens
  BY <1>1 DEF TokensAdvance
<1>2. ASSUME NEW r \in Reqs, Revoke(r) PROVE TokensAdvance
  BY <1>2 DEF Revoke, TokensAdvance, IInv, TypeOK, TokenRow
<1>3. ASSUME NEW r \in Reqs, Issue(r) PROVE TokensAdvance
  BY <1>3 DEF Issue, TokensAdvance, IInv, TypeOK, TokenRow
<1>4. ASSUME NEW u \in Users, DeleteUser(u) PROVE TokensAdvance
  BY <1>4 DEF DeleteUser, TokensAdvance, IInv, TypeOK, TokenRow
<1>5. ASSUME NEW r \in Reqs, Begin(r) \/ Crash(r) \/ Fault(r) PROVE UNCHANGED tokens
  BY <1>5 DEF Begin, BeginLogin, BeginToken, BeginDisable, Crash, Fault, Abort
<1>6. ASSUME NEW r \in Reqs, Step(r), ~Revoke(r), ~Issue(r) PROVE UNCHANGED tokens
  BY <1>6 DEF Step, LoadToken, LoadUser, Enable, Reload, QueryBan, VerifyPassword,
              Revalidate, Respond, WriteDisable
<1>7. ASSUME NEW u \in Users, SetActive(u) \/ ChangeBan(u) \/ Tick PROVE UNCHANGED tokens
  BY <1>7 DEF SetActive, ChangeBan, Tick
<1>8. CASE UNCHANGED vars \/ Tick
  BY <1>1, <1>8 DEF vars, Tick
<1> QED
  BY <1>1, <1>2, <1>3, <1>4, <1>5, <1>6, <1>7, <1>8 DEF Next

\* A request begins for a user, at its token or its user.
LEMMA BeginMoves ==
    ASSUME IInv, NEW r \in Reqs, Begin(r)
    PROVE  /\ req[r].pc = "idle" /\ req'[r].pc \in {"token", "user"}
           /\ req'[r].user \in Users /\ req'[r].op \in Kinds
           /\ \A s \in Reqs \ {r} : req'[s] = req[s]
           /\ UNCHANGED <<users, tokens, delivered, clock>>
<1>1. CASE BeginLogin(r)
  BY <1>1 DEF BeginLogin, Goto, Idle, IInv, TypeOK, Request, Kinds, Issuing
<1>2. CASE BeginToken(r)
  BY <1>2 DEF BeginToken, Goto, Idle, IInv, TypeOK, Request, Kinds, Issuing, IssuedTokens
<1>3. CASE BeginDisable(r)
  BY <1>3 DEF BeginDisable, Goto, Idle, IInv, TypeOK, Request, Kinds, Issuing, IssuedTokens
<1> QED
  BY <1>1, <1>2, <1>3 DEF Begin

\* A request goes on, with the user and the kind it has, or is over.
LEMMA GotoMoves ==
    ASSUME TypeOK, NEW r \in Reqs, NEW q \in Request, NEW pc, Goto(r, q, pc),
           q.user = req[r].user, q.op = req[r].op
    PROVE  /\ \/ req'[r] = Idle
              \/ /\ req'[r].pc = pc /\ req'[r].user = req[r].user
                 /\ req'[r].op = req[r].op /\ req'[r].new = q.new
           /\ \A s \in Reqs \ {r} : req'[s] = req[s]
BY DEF Goto, TypeOK, Request

\* The order of a request's statements, as far as its copy of the roles goes.
LEMMA StepMoves ==
    ASSUME IInv, NEW r \in Reqs, Step(r)
    PROVE  /\ \A s \in Reqs \ {r} : req'[s] = req[s]
           /\ req[r].pc # "idle"
           /\ \/ req'[r] = Idle
              \/ /\ req'[r].user = req[r].user /\ req'[r].op = req[r].op
                 /\ req'[r].pc \notin {"idle", "token"}
                 /\ req'[r].pc = "user" <=> req[r].pc = "token"
                 /\ req'[r].pc = "respond" =>
                      req[r].pc = "issue" /\ tokens'[req'[r].new].user = req[r].user
<1>1. req[r] \in Request /\ TypeOK
  BY DEF IInv, TypeOK
<1>2. CASE LoadToken(r)
  <2>1. req[r].pc = "token" /\ (Goto(r, req[r], "user") \/ Goto(r, req[r], "idle"))
    BY <1>2 DEF LoadToken
  <2>2. Goto(r, req[r], "idle") => req'[r] = Idle
    BY <1>1 DEF Goto, TypeOK
  <2> QED
    BY <1>1, <2>1, <2>2, GotoMoves
<1>3. CASE LoadUser(r)
  <2> DEFINE q == [req[r] EXCEPT !.row = users[req[r].user]]
             pc == IF ~users[req[r].user].here THEN "idle"
                   ELSE IF q.op # "disable" THEN AfterStatus(q)
                   ELSE IF users[req[r].user].disabled_at = Never THEN "disable" ELSE "idle"
  <2>1. req[r].pc = "user" /\ Goto(r, q, pc)
    BY <1>3, <1>1 DEF LoadUser, Request
  <2>2. q \in Request /\ q.user = req[r].user /\ q.op = req[r].op
    BY <1>1, <2>1 DEF Request, TypeOK, IInv, ReqInv, Shape
  <2>3. pc \notin {"token", "user", "respond"}
    BY DEF AfterStatus, AfterValidation
  <2> HIDE DEF q, pc
  <2>4. pc = "idle" => req'[r] = Idle
    BY <1>1, <2>1 DEF Goto, TypeOK
  <2> QED
    BY <1>1, <2>1, <2>2, <2>3, <2>4, GotoMoves
<1>4. CASE Enable(r)
  <2>1. req[r].pc = "enable" /\ (Goto(r, req[r], "reload") \/ Goto(r, req[r], "idle"))
    BY <1>4 DEF Enable
  <2>2. Goto(r, req[r], "idle") => req'[r] = Idle
    BY <1>1 DEF Goto, TypeOK
  <2> QED
    BY <1>1, <2>1, <2>2, GotoMoves
<1>5. CASE Reload(r)
  <2> DEFINE q == [req[r] EXCEPT !.row = users[req[r].user]]
  <2>1. req[r].pc = "reload" /\ (Goto(r, q, "ban") \/ Goto(r, q, "idle"))
    BY <1>5 DEF Reload
  <2>2. q \in Request /\ q.user = req[r].user /\ q.op = req[r].op
    BY <1>1, <2>1 DEF Request, TypeOK, IInv, ReqInv, Shape
  <2> HIDE DEF q
  <2> QED
    BY <1>1, <2>1, <2>2, GotoMoves DEF Goto
<1>6. CASE QueryBan(r)
  <2>1. req[r].pc = "ban"
        /\ (Goto(r, req[r], AfterValidation(req[r])) \/ Goto(r, req[r], "idle"))
    BY <1>6 DEF QueryBan
  <2>2. AfterValidation(req[r]) \notin {"idle", "token", "user", "respond"}
    BY DEF AfterValidation
  <2> QED
    BY <1>1, <2>1, <2>2, GotoMoves DEF Goto
<1>7. CASE VerifyPassword(r)
  <2>1. req[r].pc = "password" /\ (Goto(r, req[r], "issue") \/ Goto(r, req[r], "idle"))
    BY <1>7 DEF VerifyPassword
  <2>2. Goto(r, req[r], "idle") => req'[r] = Idle
    BY <1>1 DEF Goto, TypeOK
  <2> QED
    BY <1>1, <2>1, <2>2, GotoMoves
<1>8. CASE Revoke(r)
  <2>1. req[r].pc = "revoke" /\ (Goto(r, req[r], "recheck") \/ Goto(r, req[r], "idle"))
    BY <1>8 DEF Revoke, AfterRevoke
  <2>2. Goto(r, req[r], "idle") => req'[r] = Idle
    BY <1>1 DEF Goto, TypeOK
  <2> QED
    BY <1>1, <2>1, <2>2, GotoMoves
<1>9. CASE Revalidate(r)
  <2> DEFINE q == [req[r] EXCEPT !.stage = 2]
  <2>1. req[r].pc = "recheck" /\ Goto(r, q, AfterStatus(q))
    BY <1>9 DEF Revalidate
  <2>2. q \in Request /\ q.user = req[r].user /\ q.op = req[r].op
    BY <1>1 DEF Request
  <2>3. AfterStatus(q) \notin {"token", "user", "respond"}
    BY DEF AfterStatus, AfterValidation
  <2> HIDE DEF q
  <2>4. AfterStatus(q) = "idle" => req'[r] = Idle
    BY <1>1, <2>1 DEF Goto, TypeOK
  <2> QED
    BY <1>1, <2>1, <2>2, <2>3, <2>4, GotoMoves
<1>10. CASE Issue(r)
  <2>1. CASE Goto(r, req[r], "idle")
    <3>1. req'[r] = Idle /\ req[r].pc = "issue"
      BY <1>1, <1>10, <2>1 DEF Goto, TypeOK, Issue
    <3> QED
      BY <1>1, <2>1, <3>1, GotoMoves
  <2>2. CASE ~Goto(r, req[r], "idle")
    <3>1. PICK c \in Jtis :
            /\ tokens' = [tokens EXCEPT ![c] = [state |-> "live", user |-> req[r].user,
                                               exp |-> clock + TokenLife]]
            /\ Goto(r, [req[r] EXCEPT !.new = c], "respond")
      BY <1>10, <2>2 DEF Issue
    <3> DEFINE q == [req[r] EXCEPT !.new = c]
    <3>2. q \in Request /\ q.user = req[r].user /\ q.op = req[r].op /\ q.new = c
      BY <1>1 DEF Request
    <3>3. tokens'[c].user = req[r].user
      BY <1>1, <3>1 DEF TypeOK
    <3>4. Goto(r, q, "respond") /\ req[r].pc = "issue"
      BY <1>10, <3>1 DEF Issue
    <3> HIDE DEF q
    <3> QED
      BY <1>1, <3>2, <3>3, <3>4, GotoMoves
  <2> QED
    BY <2>1, <2>2
<1>11. CASE Respond(r)
  <2>1. req[r].pc = "respond" /\ Goto(r, req[r], "idle")
    BY <1>11 DEF Respond
  <2> QED
    BY <1>1, <2>1, GotoMoves DEF Goto, TypeOK
<1>12. CASE WriteDisable(r)
  <2>1. req[r].pc = "disable" /\ Goto(r, req[r], "idle")
    BY <1>12 DEF WriteDisable
  <2> QED
    BY <1>1, <2>1, GotoMoves DEF Goto, TypeOK
<1> QED
  BY <1>2, <1>3, <1>4, <1>5, <1>6, <1>7, <1>8, <1>9, <1>10, <1>11, <1>12 DEF Step

\* Only Respond delivers a token, the one its request has issued.
LEMMA OnlyRespond ==
    ASSUME NEW r \in Reqs, Step(r), NEW j \in delivered' \ delivered
    PROVE  req[r].pc = "respond" /\ req[r].new = j
BY DEF Step, LoadToken, LoadUser, Enable, Reload, QueryBan, VerifyPassword, Revoke,
       Revalidate, Issue, Respond, WriteDisable

\* Only WriteDisable sets disabled_at, of its own user.
LEMMA OnlyWriteDisable ==
    ASSUME IInv, NEW r \in Reqs, Step(r), NEW u \in Users,
           users'[u].disabled_at # Never, users[u].disabled_at = Never
    PROVE  req[r].op = "disable" /\ req[r].user = u /\ req[r].pc # "idle"
<1>1. CASE UNCHANGED users
  BY <1>1
<1>2. CASE Enable(r)
  BY <1>2 DEF Enable, IInv, TypeOK, UserRow
<1>3. CASE WriteDisable(r)
  BY <1>3 DEF WriteDisable, IInv, TypeOK, UserRow, ReqInv, Shape
<1> QED
  BY <1>1, <1>2, <1>3 DEF Step, LoadToken, LoadUser, Reload, QueryBan, VerifyPassword,
     Revoke, Revalidate, Issue, Respond

-----------------------------------------------------------------------------
(* The invariant.                                                             *)

\* The roles of every user stay among those that occur.
LEMMA HeldType ==
    ASSUME AccessTypeOK, ObserveRoles, roles' \in [Users -> RoleSets],
           \A r \in Reqs : req'[r].pc # "idle" => req'[r].user \in Users
    PROVE  held' \in [Reqs -> SUBSET RoleSets] /\ entitled' \subseteq Users
BY DEF AccessTypeOK, ObserveRoles

\* The history of a request goes on while the request does.
LEMMA HeldGrows ==
    ASSUME ObserveRoles, NEW r \in Reqs, req'[r].pc # "idle"
    PROVE  /\ roles'[req'[r].user] \in held'[r]
           /\ req[r].pc # "idle" => held'[r] = held[r] \cup {roles'[req'[r].user]}
           /\ req[r].pc = "idle" => held'[r] = {roles'[req'[r].user]}
BY DEF ObserveRoles

\* Who possesses the scope now is recorded as entitled, and stays so.
LEMMA EntitledGrows ==
    ASSUME ObserveRoles
    PROVE  /\ entitled \subseteq entitled'
           /\ \A u \in Users : Entitling \in Possessed(roles'[u]) => u \in entitled'
BY DEF ObserveRoles, Entitling

\* A request that does not move knows what it knew.
LEMMA StillInformed ==
    ASSUME IInv, TokensAdvance, ObserveRoles, NEW r \in Reqs, Informed(r),
           req'[r] = req[r], ses'[r] = ses[r]
    PROVE  Informed(r)'
<1>1. CASE req[r].pc = "idle"
  BY <1>1 DEF Informed
<1>2. CASE req[r].pc # "idle"
  <2>1. req[r].user \in Users
    BY <1>2 DEF IInv, ReqInv, Shape
  <2>2. /\ roles'[req[r].user] \in held'[r]
        /\ held'[r] = held[r] \cup {roles'[req[r].user]}
    BY <1>2, HeldGrows
  <2>3. \A R \in held'[r] : Entitling \in Possessed(R) => req[r].user \in entitled'
    BY <1>2, <2>1, <2>2, EntitledGrows DEF Informed
  <2>4. req[r].pc = "respond" => tokens'[req[r].new].user = req[r].user
    BY DEF Informed, TokensAdvance, IInv, IssuedTokens
  <2>5. req[r].op = "disable" => req[r].user \in entitled'
    BY <1>2, EntitledGrows DEF Informed
  <2>6. req[r].pc \in {"issue", "respond"} =>
          \E R \in held'[r] : ses[r].mint.scopes \subseteq Possessed(R)
    BY <2>2 DEF Informed
  <2>7. req[r].pc \notin {"idle", "token", "user"} => ses[r].roles \in held'[r]
    BY <2>2 DEF Informed
  <2> HIDE DEF Entitling
  <2> QED
    BY <1>2, <2>2, <2>3, <2>4, <2>5, <2>6, <2>7 DEF Informed
<1> QED
  BY <1>1, <1>2

\* A token in the hands of a client keeps its user.
LEMMA StillEntitled ==
    ASSUME IInv, TokensAdvance, ObserveRoles, AccessEntitled,
           UNCHANGED <<access, delivered>>
    PROVE  AccessEntitled'
<1> SUFFICES ASSUME NEW j \in delivered, Entitling \in access[j].scopes
             PROVE  tokens'[j].user \in entitled'
  BY DEF AccessEntitled
<1>1. tokens[j].user \in entitled /\ j \in Jtis /\ tokens[j].state # "unused"
  BY DEF AccessEntitled, IInv, IssuedTokens, TypeOK
<1> QED
  BY <1>1, EntitledGrows DEF TokensAdvance

\* What holds initially.
LEMMA AccessInitInv == AccessInit => AccessInv
<1> SUFFICES ASSUME AccessInit PROVE AccessInv
  OBVIOUS
<1>1. IInv
  BY InitInv DEF AccessInit
<1>2. \A r \in Reqs : req[r].pc = "idle" /\ req[r].op = "none"
  BY DEF AccessInit, Init, Idle
<1>3. AccessTypeOK
  <2>1. TypeOK /\ delivered = {}
    BY <1>1 DEF IInv, AccessInit, Init
  <2>2. NoSession \in Session /\ NoAccess \in AccessToken
    BY DEF NoSession, Session, NoAccess, AccessToken
  <2> QED
    BY <2>1, <2>2 DEF AccessTypeOK, AccessInit
<1>4. \A r \in Reqs : Informed(r)
  BY <1>2 DEF Informed
<1>5. AccessEntitled /\ DisabledByRight
  BY DEF AccessEntitled, DisabledByRight, AccessInit, Init, NewRow
<1> QED
  BY <1>1, <1>3, <1>4, <1>5 DEF AccessInv

LEMMA AccessBeginInv ==
    ASSUME AccessInv, IInv', NEW r \in Reqs, AccessBegin(r) PROVE AccessInv'
<1> USE DEF AccessInv
<1>1. /\ req[r].pc = "idle" /\ req'[r].pc \in {"token", "user"}
      /\ req'[r].user \in Users /\ req'[r].op \in Kinds
      /\ \A s \in Reqs \ {r} : req'[s] = req[s]
      /\ UNCHANGED <<users, tokens, delivered, clock>>
  BY BeginMoves DEF AccessBegin
<1>2. PICK wants \in WantedSets \cup {{}} : ses' = [ses EXCEPT ![r].wants = wants]
  BY DEF AccessBegin
<1>3. UNCHANGED <<roles, access, lost>> /\ ObserveRoles /\ TokensAdvance
  BY <1>1 DEF AccessBegin, TokensAdvance
<1>4. AccessTypeOK'
  <2>1. ses' \in [Reqs -> Session]
    BY <1>2 DEF AccessTypeOK, Session
  <2>2. \A s \in Reqs : req'[s].pc # "idle" => req'[s].user \in Users
    BY DEF IInv, ReqInv, Shape
  <2>3. held' \in [Reqs -> SUBSET RoleSets] /\ entitled' \subseteq Users
    BY <1>3, <2>2, HeldType DEF AccessTypeOK
  <2>4. TypeOK'
    BY DEF IInv
  <2> QED
    BY <1>3, <2>1, <2>3, <2>4 DEF AccessTypeOK
<1>5. ASSUME NEW s \in Reqs PROVE Informed(s)'
  <2>1. CASE s # r
    BY <1>1, <1>2, <1>3, <2>1, StillInformed DEF AccessTypeOK
  <2>2. CASE s = r
    <3> DEFINE u == req'[r].user
    <3>1. held'[r] = {roles'[u]}
      BY <1>1, <1>3, HeldGrows
    <3>2. Entitling \in Possessed(roles'[u]) => u \in entitled'
      BY <1>1, <1>3, EntitledGrows
    <3>3. req'[r].op = "disable" => u \in entitled'
      <4> SUFFICES ASSUME req'[r].op = "disable" PROVE u \in entitled'
        OBVIOUS
      <4>1. PICK j \in delivered : tokens[j].user = u /\ Entitling \in access[j].scopes
        BY DEF AccessBegin, Authorised, Entitling
      <4> QED
        BY <1>3, <4>1, EntitledGrows DEF AccessEntitled
    <3> HIDE DEF Entitling
    <3> QED
      BY <1>1, <2>2, <3>1, <3>2, <3>3 DEF Informed
  <2> QED
    BY <2>1, <2>2
<1>6. AccessEntitled'
  BY <1>1, <1>3, StillEntitled
<1>7. DisabledByRight'
  BY <1>1, <1>3, EntitledGrows DEF DisabledByRight
<1> QED
  BY <1>4, <1>5, <1>6, <1>7

\* What an access token is minted with.
LEMMA MintType ==
    ASSUME AccessTypeOK, NEW R, NEW wants, Grantable(R, wants)
    PROVE  [scopes |-> Granted(R, wants), exp |-> clock + AccessLife] \in AccessToken
<1>1. clock + AccessLife \in Nat
  BY RolesAssumption DEF AccessTypeOK, TypeOK
<1>2. Granted(R, wants) \subseteq OAUTH_SCOPES
  BY DEF Granted
<1> QED
  BY <1>1, <1>2 DEF AccessToken

\* A statement of a request: its session and the access token it delivers.
LEMMA AccessStepInv ==
    ASSUME AccessInv, IInv', NEW r \in Reqs, AccessStep(r) PROVE AccessInv'
<1> USE DEF AccessInv
<1> DEFINE R     == CopyOfRoles(r)
           wants == ses[r].wants
           u     == req[r].user
           fresh == [scopes |-> Granted(R, wants), exp |-> clock + AccessLife]
           mint  == IF req'[r].pc = "issue" THEN fresh ELSE ses[r].mint
           next  == IF req'[r].pc = "idle" THEN NoSession
                    ELSE [roles |-> R, wants |-> wants, mint |-> mint]
<1>1. /\ Step(r) /\ ObserveRoles /\ UNCHANGED <<roles, lost>>
      /\ req'[r].pc = "issue" => Grantable(R, wants)
      /\ ses' = [ses EXCEPT ![r] = next]
      /\ access' = [j \in Jtis |-> IF j \in delivered' \ delivered
                                   THEN ses[r].mint ELSE access[j]]
  BY DEF AccessStep
<1>2. /\ \A s \in Reqs \ {r} : req'[s] = req[s]
      /\ req[r].pc # "idle" /\ u \in Users
      /\ \/ req'[r] = Idle
         \/ /\ req'[r].user = u /\ req'[r].op = req[r].op
            /\ req'[r].pc \notin {"idle", "token"}
            /\ req'[r].pc = "user" <=> req[r].pc = "token"
            /\ req'[r].pc = "respond" =>
                 req[r].pc = "issue" /\ tokens'[req'[r].new].user = u
  <2>1. Shape(req[r])
    BY DEF IInv, ReqInv
  <2> QED
    BY <1>1, <2>1, StepMoves DEF Shape
<1>3. TokensAdvance
  BY <1>1, StepAdvances DEF Next
<1>4. ses[r] \in Session /\ roles[u] \in RoleSets /\ R \in RoleSets \cup {{}}
  BY <1>2 DEF AccessTypeOK, Session, CopyOfRoles
<1>5. next \in Session
  <2>1. mint \in AccessToken
    <3>1. CASE req'[r].pc = "issue"
      BY <1>1, <3>1, MintType
    <3>2. CASE req'[r].pc # "issue"
      BY <1>4, <3>2 DEF Session
    <3> QED
      BY <3>1, <3>2
  <2>2. NoSession \in Session
    BY DEF NoSession, Session, NoAccess, AccessToken
  <2> HIDE DEF mint, R
  <2> QED
    BY <1>4, <2>1, <2>2 DEF Session
<1> HIDE DEF fresh
<1>6. AccessTypeOK'
  <2>1. ses' \in [Reqs -> Session]
    BY <1>1, <1>5 DEF AccessTypeOK
  <2>2. access' \in [Jtis -> AccessToken]
    BY <1>1, <1>4 DEF AccessTypeOK, Session
  <2>3. \A s \in Reqs : req'[s].pc # "idle" => req'[s].user \in Users
    BY DEF IInv, ReqInv, Shape
  <2>4. held' \in [Reqs -> SUBSET RoleSets] /\ entitled' \subseteq Users
    BY <1>1, <2>3, HeldType DEF AccessTypeOK
  <2>5. TypeOK'
    BY DEF IInv
  <2> QED
    BY <1>1, <2>1, <2>2, <2>4, <2>5 DEF AccessTypeOK
<1>7. Informed(r)'
  <2>1. CASE req'[r].pc = "idle"
    BY <2>1 DEF Informed
  <2>2. CASE req'[r].pc # "idle"
    <3>1. /\ req'[r].user = u /\ req'[r].op = req[r].op
          /\ req'[r].pc # "token"
          /\ req'[r].pc = "user" <=> req[r].pc = "token"
          /\ req'[r].pc = "respond" =>
               req[r].pc = "issue" /\ tokens'[req'[r].new].user = u
      BY <1>2, <2>2 DEF Idle
    <3>2. ses'[r] = [roles |-> R, wants |-> wants, mint |-> mint]
      BY <1>1, <2>2 DEF AccessTypeOK
    <3>3. /\ roles'[u] \in held'[r]
          /\ held'[r] = held[r] \cup {roles'[u]} /\ roles'[u] = roles[u]
      BY <1>1, <1>2, <2>2, <3>1, HeldGrows
    <3>4. req[r].pc # "token" => R \in held'[r]
      BY <1>2, <3>3 DEF CopyOfRoles, Informed
    <3>5. req'[r].pc \notin {"idle", "token", "user"} => ses'[r].roles \in held'[r]
      BY <3>1, <3>2, <3>4
    <3>6. req'[r].pc \in {"issue", "respond"} =>
            \E S \in held'[r] : ses'[r].mint.scopes \subseteq Possessed(S)
      <4>1. CASE req'[r].pc = "issue"
        <5>1. ses'[r].mint.scopes = Granted(R, wants)
          BY <3>2, <4>1 DEF fresh
        <5>2. Granted(R, wants) \subseteq Possessed(R)
          BY <1>1, <4>1, GrantedPossessed
        <5>3. R \in held'[r]
          BY <3>1, <3>4, <4>1
        <5> HIDE DEF R
        <5> QED
          BY <5>1, <5>2, <5>3
      <4>2. CASE req'[r].pc = "respond"
        <5>1. ses'[r].mint = ses[r].mint /\ req[r].pc = "issue"
          BY <3>1, <3>2, <4>2
        <5>2. \E S \in held[r] : ses[r].mint.scopes \subseteq Possessed(S)
          BY <5>1 DEF Informed
        <5> QED
          BY <3>3, <5>1, <5>2
      <4> QED
        BY <4>1, <4>2
    <3>7. \A S \in held'[r] : Entitling \in Possessed(S) => u \in entitled'
      <4> HIDE DEF Entitling
      <4> QED
        BY <1>1, <1>2, <3>3, EntitledGrows DEF Informed
    <3>8. req'[r].op = "disable" => u \in entitled'
      BY <1>1, <1>2, <3>1, EntitledGrows DEF Informed
    <3> HIDE DEF Entitling, R, mint
    <3> QED
      BY <3>1, <3>3, <3>5, <3>6, <3>7, <3>8 DEF Informed
  <2> QED
    BY <2>1, <2>2
<1>8. ASSUME NEW s \in Reqs PROVE Informed(s)'
  <2>1. CASE s # r
    <3>1. ses'[s] = ses[s] /\ req'[s] = req[s]
      BY <1>1, <1>2, <2>1 DEF AccessTypeOK
    <3> QED
      BY <1>1, <1>3, <3>1, StillInformed
  <2> QED
    BY <1>7, <2>1
<1>9. AccessEntitled'
  <2> SUFFICES ASSUME NEW j \in delivered', Entitling \in access'[j].scopes
               PROVE  tokens'[j].user \in entitled'
    BY DEF AccessEntitled
  <2>1. j \in Jtis
    BY DEF IInv, TypeOK
  <2>2. CASE j \in delivered
    <3>1. tokens[j].user \in entitled /\ tokens[j].state # "unused"
      BY <1>1, <2>1, <2>2 DEF AccessEntitled, IInv, IssuedTokens
    <3> QED
      BY <1>1, <1>3, <2>1, <3>1, EntitledGrows DEF TokensAdvance
  <2>3. CASE j \notin delivered
    <3>1. req[r].pc = "respond" /\ req[r].new = j
      BY <1>1, <2>3, OnlyRespond
    <3>2. access'[j] = ses[r].mint
      BY <1>1, <2>1, <2>3
    <3>3. tokens[j].user = u /\ tokens[j].state # "unused"
      BY <3>1 DEF Informed, IInv, IssuedTokens
    <3>4. u \in entitled
      <4>1. PICK S \in held[r] : ses[r].mint.scopes \subseteq Possessed(S)
        BY <3>1 DEF Informed
      <4>2. Entitling \in Possessed(S)
        BY <3>2, <4>1
      <4> HIDE DEF Entitling
      <4> QED
        BY <1>2, <4>1, <4>2 DEF Informed
    <3> QED
      BY <1>1, <1>3, <2>1, <3>3, <3>4, EntitledGrows DEF TokensAdvance
  <2> QED
    BY <2>2, <2>3
<1>10. DisabledByRight'
  <2> SUFFICES ASSUME NEW v \in Users, users'[v].disabled_at # Never
               PROVE  v \in entitled'
    BY DEF DisabledByRight
  <2>1. CASE users[v].disabled_at # Never
    BY <1>1, <2>1, EntitledGrows DEF DisabledByRight
  <2>2. CASE users[v].disabled_at = Never
    <3>1. req[r].op = "disable" /\ req[r].user = v /\ req[r].pc # "idle"
      BY <1>1, <2>2, OnlyWriteDisable
    <3> QED
      BY <1>1, <3>1, EntitledGrows DEF Informed
  <2> QED
    BY <2>1, <2>2
<1> QED
  BY <1>6, <1>8, <1>9, <1>10

\* A request that dies or fails.
LEMMA AccessCrashInv ==
    ASSUME AccessInv, IInv', NEW r \in Reqs, AccessCrash(r) PROVE AccessInv'
<1> USE DEF AccessInv
<1>1. /\ req[r].pc # "idle" /\ req' = [req EXCEPT ![r] = Idle]
      /\ UNCHANGED <<users, banned, tokens, delivered, parent, clock>>
  BY DEF AccessCrash, Crash, Fault, Abort, Goto, Busy
<1>2. /\ ses' = [ses EXCEPT ![r] = NoSession] /\ UNCHANGED <<roles, access>> /\ ObserveRoles
      /\ lost' = IF req[r].op = "refresh" THEN lost \cup {req[r].jti} ELSE lost
  BY DEF AccessCrash
<1>3. TokensAdvance
  BY <1>1 DEF TokensAdvance
<1>4. req'[r] = Idle /\ \A s \in Reqs \ {r} : req'[s] = req[s] /\ ses'[s] = ses[s]
  BY <1>1, <1>2 DEF AccessTypeOK, TypeOK
<1>5. AccessTypeOK'
  <2>1. ses' \in [Reqs -> Session]
    BY <1>2 DEF AccessTypeOK, NoSession, Session, NoAccess, AccessToken
  <2>2. \A s \in Reqs : req'[s].pc # "idle" => req'[s].user \in Users
    BY DEF IInv, ReqInv, Shape
  <2>3. held' \in [Reqs -> SUBSET RoleSets] /\ entitled' \subseteq Users
    BY <1>2, <2>2, HeldType DEF AccessTypeOK
  <2>4. lost' \subseteq Jtis
    BY <1>1, <1>2 DEF AccessTypeOK, IInv, ReqInv, Presented
  <2>5. TypeOK'
    BY DEF IInv
  <2> QED
    BY <1>2, <2>1, <2>3, <2>4, <2>5 DEF AccessTypeOK
<1>6. ASSUME NEW s \in Reqs PROVE Informed(s)'
  <2>1. CASE s = r
    BY <1>4, <2>1 DEF Informed, Idle
  <2>2. CASE s # r
    BY <1>2, <1>3, <1>4, <2>2, StillInformed
  <2> QED
    BY <2>1, <2>2
<1>7. AccessEntitled'
  BY <1>1, <1>2, <1>3, StillEntitled
<1>8. DisabledByRight'
  BY <1>1, <1>2, EntitledGrows DEF DisabledByRight
<1> QED
  BY <1>5, <1>6, <1>7, <1>8

\* A step of the rest of the system, which no request and no session moves in.
LEMMA AccessOthersInv ==
    ASSUME AccessInv, IInv', TokensAdvance, ObserveRoles,
           UNCHANGED <<req, delivered, ses, access, lost>>,
           roles' \in [Users -> RoleSets],
           \A u \in Users : users'[u].disabled_at = users[u].disabled_at
    PROVE  AccessInv'
<1> USE DEF AccessInv
<1>1. AccessTypeOK'
  <2>1. \A s \in Reqs : req'[s].pc # "idle" => req'[s].user \in Users
    BY DEF IInv, ReqInv, Shape
  <2>2. held' \in [Reqs -> SUBSET RoleSets] /\ entitled' \subseteq Users
    BY <2>1, HeldType
  <2>3. TypeOK'
    BY DEF IInv
  <2> QED
    BY <2>2, <2>3 DEF AccessTypeOK
<1>2. \A s \in Reqs : Informed(s)'
  BY StillInformed
<1>3. AccessEntitled'
  BY StillEntitled
<1>4. DisabledByRight'
  BY EntitledGrows DEF DisabledByRight
<1> QED
  BY <1>1, <1>2, <1>3, <1>4

LEMMA AccessOutsideInv ==
    ASSUME AccessInv, IInv', AccessOutside PROVE AccessInv'
<1>1. TokensAdvance
  BY StepAdvances DEF AccessInv, AccessOutside, Next
<1>2. ObserveRoles /\ UNCHANGED <<roles, ses, access, lost>>
  BY DEF AccessOutside
<1>3. UNCHANGED <<req, delivered>>
  BY DEF AccessOutside, SetActive, DeleteUser, ChangeBan, Tick
<1>4. \A u \in Users : users'[u].disabled_at = users[u].disabled_at
  BY DEF AccessOutside, SetActive, DeleteUser, ChangeBan, Tick, AccessInv, IInv, TypeOK, UserRow
<1> QED
  BY <1>1, <1>2, <1>3, <1>4, AccessOthersInv DEF AccessInv, AccessTypeOK

LEMMA ChangeRolesInv ==
    ASSUME AccessInv, IInv', NEW u \in Users, ChangeRoles(u) PROVE AccessInv'
<1>1. TokensAdvance
  BY DEF ChangeRoles, vars, TokensAdvance
<1>2. roles' \in [Users -> RoleSets]
  BY DEF ChangeRoles, AccessInv, AccessTypeOK
<1> QED
  BY <1>1, <1>2, AccessOthersInv DEF ChangeRoles, vars

\* Every step preserves the invariant.
LEMMA AccessNextInv == AccessInv /\ [AccessNext]_avars => AccessInv'
<1> SUFFICES ASSUME AccessInv, [AccessNext]_avars PROVE AccessInv'
  OBVIOUS
<1>1. IInv'
  BY StepRefines, NextInv DEF AccessInv
<1>2. CASE UNCHANGED avars
  BY <1>1, <1>2 DEF AccessInv, AccessTypeOK, IInv, Informed, AccessEntitled, DisabledByRight,
                    avars, vars
<1> QED
  BY <1>1, <1>2, AccessBeginInv, AccessStepInv, AccessCrashInv, AccessOutsideInv, ChangeRolesInv
  DEF AccessNext

THEOREM AccessInvariance == AccessSpec => []AccessInv
BY AccessInitInv, AccessNextInv, PTL DEF AccessSpec

\* Every variable has its type.
THEOREM AccessTypeCorrect == AccessSpec => []AccessTypeOK
<1>1. AccessInv => AccessTypeOK
  BY DEF AccessInv
<1> QED
  BY <1>1, AccessInvariance, PTL

\* An account is self-disabled only if its user was once allowed to, so guests
\* made as the code makes them, and never promoted, are not.
THEOREM DisabledByRights == AccessSpec => []DisabledByRight
<1>1. AccessInv => DisabledByRight
  BY DEF AccessInv
<1> QED
  BY <1>1, AccessInvariance, PTL

\* No access token carries a scope that its user did not possess while the
\* request that minted it was in progress, whatever roles change meanwhile and
\* whatever scopes its client asks for.
THEOREM ScopesAreJustified == AccessSpec => ScopesJustified
<1> DEFINE A == \A j \in delivered' \ delivered :
                  \E r \in Reqs : /\ req[r].pc = "respond" /\ req[r].new = j
                                  /\ \E R \in held[r] : access'[j].scopes \subseteq Possessed(R)
<1>1. AccessInv /\ AccessNext => A
  <2> SUFFICES ASSUME AccessInv, AccessNext, NEW j \in delivered' \ delivered
               PROVE  \E r \in Reqs :
                        /\ req[r].pc = "respond" /\ req[r].new = j
                        /\ \E R \in held[r] : access'[j].scopes \subseteq Possessed(R)
    OBVIOUS
  <2>1. PICK r \in Reqs : AccessStep(r)
    BY BeginMoves DEF AccessNext, AccessBegin, AccessCrash, Crash, Fault, Abort, AccessOutside, SetActive,
       DeleteUser, ChangeBan, Tick, ChangeRoles, vars, AccessInv
  <2>2. req[r].pc = "respond" /\ req[r].new = j
    BY <2>1, OnlyRespond DEF AccessStep
  <2>3. j \in Jtis
    BY <2>2 DEF AccessInv, IInv, IssuedTokens
  <2>4. access'[j] = ses[r].mint
    BY <2>1, <2>3 DEF AccessStep
  <2>5. \E R \in held[r] : ses[r].mint.scopes \subseteq Possessed(R)
    BY <2>2 DEF AccessInv, Informed
  <2> QED
    BY <2>2, <2>4, <2>5
<1>2. AccessInv /\ [AccessNext]_avars => [A]_avars
  BY <1>1
<1> QED
  BY <1>2, AccessInvariance, PTL DEF ScopesJustified, AccessSpec
=============================================================================
