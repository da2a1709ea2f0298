----------------------------- MODULE AuthTokens -----------------------------
(* Issue, rotation and revocation of refresh tokens by concurrent requests.   *)
(*                                                                            *)
(* A request is a coroutine that owns one database session.  Its steps are    *)
(* the statements it sends to PostgreSQL (READ COMMITTED); between two of     *)
(* them any other request may run.  The session's identity map keeps the      *)
(* first copy it loads of a row: later SELECTs of that row, FOR UPDATE        *)
(* included, return the same object without refreshing it.  The field "row"   *)
(* of a request is that copy of its user; the copy of its token needs no      *)
(* field, because a request only goes on when the copy says "not revoked".    *)
(* update_by_attribute (SELECT FOR UPDATE, UPDATE, COMMIT) holds the row lock *)
(* from its read to its commit, so it is one step.                            *)
EXTENDS Integers, FiniteSets

CONSTANTS Users,        \* accounts
          Guests,       \* those created by guest login
          Reqs,         \* request slots of the server
          Jtis,         \* identifiers a new refresh token can get
          NoUser, NoJti, Never,
          GracePeriod,  \* USER_SELF_DISABLE_PERIOD_DAYS, in ticks
          TokenLife,    \* refresh_token_expire_minutes, in ticks
          MaxClock,     \* bound on the clock
          Ops,          \* kinds of request that arrive
          Environment   \* kinds of outside events that happen

ASSUME ConstantsAssumption ==
    /\ Guests \subseteq Users
    /\ NoUser \notin Users
    /\ NoJti \notin Jtis
    /\ Never \notin Nat
    /\ GracePeriod \in Nat
    /\ TokenLife \in Nat
    /\ MaxClock \in Nat

VARIABLES users,      \* the users table
          banned,     \* users for whom get_active_ban_by_user_id finds a ban
          tokens,     \* the refresh_tokens table
          delivered,  \* tokens whose JWT reached a client
          parent,     \* history: the token a token was rotated from
          clock,
          req,        \* the requests in progress
          seen        \* history: what has been true since a request began

vars == <<users, banned, tokens, delivered, parent, clock, req, seen>>

-----------------------------------------------------------------------------
(* Types.                                                                     *)

Time == Nat \cup {Never}

UserRow == [here : BOOLEAN, is_active : BOOLEAN, disabled_at : Time]

TokenRow == [state : {"unused", "live", "revoked", "gone"},
             user : Users \cup {NoUser}, exp : Nat]

Issuing == {"login", "oauth", "guest", "refresh"}

Kinds == Issuing \cup {"logout", "disable"}

Pcs == {"idle", "token", "user", "enable", "reload", "ban", "password",
        "revoke", "recheck", "issue", "respond", "disable"}

Request == [op : Kinds \cup {"none"}, pc : Pcs, user : Users \cup {NoUser},
            jti : Jtis \cup {NoJti}, row : UserRow, stage : {1, 2},
            new : Jtis \cup {NoJti}]

Facts == {"active", "within", "unbanned", "live"}

-----------------------------------------------------------------------------
(* The state a request sees.                                                  *)

NewRow == [here |-> TRUE, is_active |-> TRUE, disabled_at |-> Never]

Idle == [op |-> "none", pc |-> "idle", user |-> NoUser, jti |-> NoJti,
         row |-> NewRow, stage |-> 1, new |-> NoJti]

Busy == {r \in Reqs : req[r].pc # "idle"}

\* A token that get_by_jti finds neither revoked nor expired.
Usable(t) == t.state = "live" /\ clock < t.exp

\* check_and_handle_disabled_status lets a row through, or re-enables it.
WithinGrace(row) == \/ row.disabled_at = Never
                    \/ clock <= row.disabled_at + GracePeriod

\* Where a request goes once its user passed a validation.
AfterValidation(q) ==
    IF q.stage = 2 THEN "issue"
    ELSE CASE q.op = "login"               -> "password"
           [] q.op \in {"oauth", "guest"}  -> "recheck"
           [] OTHER                        -> "revoke"

\* _validate_user_status_for_login up to its first statement, on the copy of
\* the row; a mutant of it validates the account's activity only.
AfterStatusUngraced(q) ==
    IF ~q.row.is_active THEN "idle"
    ELSE IF q.user \in Guests THEN AfterValidation(q)
    ELSE IF q.row.disabled_at = Never THEN "ban" ELSE "enable"

AfterStatus(q) ==
    IF ~q.row.is_active THEN "idle"
    ELSE IF q.user \in Guests THEN AfterValidation(q)
    ELSE IF q.row.disabled_at = Never THEN "ban"
    ELSE IF WithinGrace(q.row) THEN "enable" ELSE "idle"

\* Request r, with the data q, goes on at pc or ends.
Goto(r, q, pc) ==
    req' = [req EXCEPT ![r] = IF pc = "idle" THEN Idle ELSE [q EXCEPT !.pc = pc]]

\* History: the facts about a request's user and token that hold now, as far as its
\* kind needs them.
FactsOf(q) ==
    {f \in Facts :
        /\ f = "active"   => users[q.user].is_active
        /\ f = "within"   => WithinGrace(users[q.user])
        /\ f = "unbanned" => q.op \in Issuing /\ q.user \notin banned
        /\ f = "live"     => q.op = "refresh" /\ Usable(tokens[q.jti])}

\* A request gathers the facts of every state it lives through, until it has
\* stored its token or has only the write of a self-disable left to do.
Observe ==
    seen' = [r \in Reqs |->
               IF req'[r].pc \in {"idle", "respond", "disable"} THEN {}
               ELSE IF req[r].pc = "idle" THEN FactsOf(req[r])'
               ELSE seen[r] \cup FactsOf(req[r])']

-----------------------------------------------------------------------------
Init ==
    /\ users = [u \in Users |-> NewRow]
    /\ banned = {}
    /\ tokens = [j \in Jtis |-> [state |-> "unused", user |-> NoUser, exp |-> 0]]
    /\ delivered = {}
    /\ parent = [j \in Jtis |-> NoJti]
    /\ clock = 0
    /\ req = [r \in Reqs |-> Idle]
    /\ seen = [r \in Reqs |-> {}]

(* Arrival of a request.  Bound: a request that may issue a token only        *)
(* arrives while there are more unused identifiers than issuing requests.     *)

Capacity == Cardinality({j \in Jtis : tokens[j].state = "unused"})
              > Cardinality({r \in Busy : req[r].op \in Issuing})

\* Login, OAuth callback or guest login of a user.
BeginLogin(r) ==
    /\ req[r].pc = "idle"
    /\ Capacity
    /\ \E op \in Ops \cap {"login", "oauth", "guest"}, u \in Users :
          /\ op = "oauth" => u \notin Guests
          /\ op = "guest" => u \in Guests
          /\ Goto(r, [Idle EXCEPT !.op = op, !.user = u], "user")
    /\ UNCHANGED <<users, banned, tokens, delivered, parent, clock>>
    /\ Observe

\* /refresh or /logout with the cookie of a token the client received.
BeginToken(r) ==
    /\ req[r].pc = "idle"
    /\ \E op \in Ops \cap {"refresh", "logout"}, j \in delivered :
          /\ op = "refresh" => Capacity
          /\ Goto(r, [Idle EXCEPT !.op = op, !.jti = j, !.user = tokens[j].user],
                  "token")
    /\ UNCHANGED <<users, banned, tokens, delivered, parent, clock>>
    /\ Observe

\* POST /me/disable by a user who received an access token.
BeginDisable(r) ==
    /\ req[r].pc = "idle"
    /\ "disable" \in Ops
    /\ \E j \in delivered :
          Goto(r, [Idle EXCEPT !.op = "disable", !.user = tokens[j].user], "user")
    /\ UNCHANGED <<users, banned, tokens, delivered, parent, clock>>
    /\ Observe

-----------------------------------------------------------------------------
(* The steps of a request.                                                    *)

\* A mutant: the JWT is trusted without its database record.
LoadTokenUnchecked(r) ==
    /\ req[r].pc = "token"
    /\ Goto(r, req[r], "user")
    /\ UNCHANGED <<users, banned, tokens, delivered, parent, clock>>
    /\ Observe

\* _validate_refresh_token: decode the JWT, get_by_jti, check the copy.
LoadToken(r) ==
    /\ req[r].pc = "token"
    /\ Goto(r, req[r], IF Usable(tokens[req[r].jti]) THEN "user" ELSE "idle")
    /\ UNCHANGED <<users, banned, tokens, delivered, parent, clock>>
    /\ Observe

\* Load the user; then the first tests of the validation, or of disable_account.
LoadUser(r) ==
    LET row == users[req[r].user]
        q   == [req[r] EXCEPT !.row = row]
    IN  /\ req[r].pc = "user"
        /\ Goto(r, q, IF ~row.here THEN "idle"
                      ELSE IF q.op # "disable" THEN AfterStatus(q)
                      ELSE IF row.disabled_at = Never THEN "disable" ELSE "idle")
        /\ UNCHANGED <<users, banned, tokens, delivered, parent, clock>>
        /\ Observe

\* enable_account: disabled_at is set to NULL, whatever the row holds by now.
Enable(r) ==
    LET u == req[r].user
    IN  /\ req[r].pc = "enable"
        /\ IF users[u].here
           THEN /\ users' = [users EXCEPT ![u].disabled_at = Never]
                /\ Goto(r, req[r], "reload")
           ELSE UNCHANGED users /\ Goto(r, req[r], "idle")
        /\ UNCHANGED <<banned, tokens, delivered, parent, clock>>
        /\ Observe

\* session.refresh(user) after the commit: the only reload of the copy.
Reload(r) ==
    LET row == users[req[r].user]
    IN  /\ req[r].pc = "reload"
        /\ Goto(r, [req[r] EXCEPT !.row = row], IF row.here THEN "ban" ELSE "idle")
        /\ UNCHANGED <<users, banned, tokens, delivered, parent, clock>>
        /\ Observe

\* get_active_ban_by_user_id, a query of its own in each validation.
QueryBan(r) ==
    /\ req[r].pc = "ban"
    /\ Goto(r, req[r],
            IF req[r].user \in banned THEN "idle" ELSE AfterValidation(req[r]))
    /\ UNCHANGED <<users, banned, tokens, delivered, parent, clock>>
    /\ Observe

\* verify_password, and the scopes asked for: either may refuse.
VerifyPassword(r) ==
    /\ req[r].pc = "password"
    /\ \E ok \in BOOLEAN :
          Goto(r, req[r], IF ok /\ req[r].user \notin Guests THEN "issue" ELSE "idle")
    /\ UNCHANGED <<users, banned, tokens, delivered, parent, clock>>
    /\ Observe

AfterRevoke(q) == IF q.op = "refresh" THEN "recheck" ELSE "idle"

\* A mutant: rotation leaves the old token alone.
RevokeNothing(r) ==
    /\ req[r].pc = "revoke"
    /\ Goto(r, req[r], AfterRevoke(req[r]))
    /\ UNCHANGED <<users, banned, tokens, delivered, parent, clock>>
    /\ Observe

\* revoke_token.  Its test of revoked_at reads the copy, which LoadToken found
\* unset, so it always goes on to write.
Revoke(r) ==
    LET j == req[r].jti
    IN  /\ req[r].pc = "revoke"
        /\ IF tokens[j].state = "gone"
           THEN UNCHANGED tokens /\ Goto(r, req[r], "idle")
           ELSE /\ tokens' = [tokens EXCEPT ![j].state = "revoked"]
                /\ Goto(r, req[r], AfterRevoke(req[r]))
        /\ UNCHANGED <<users, banned, delivered, parent, clock>>
        /\ Observe

\* _get_validated_user_for_token_creation with a user object: the validation
\* again, on the same copy of the row.
Revalidate(r) ==
    LET q == [req[r] EXCEPT !.stage = 2]
    IN  /\ req[r].pc = "recheck"
        /\ Goto(r, q, AfterStatus(q))
        /\ UNCHANGED <<users, banned, tokens, delivered, parent, clock>>
        /\ Observe

\* _create_refresh_token: INSERT and COMMIT; the foreign key refuses a token
\* of a deleted user.
Issue(r) ==
    LET u == req[r].user
    IN  /\ req[r].pc = "issue"
        /\ IF users[u].here
           THEN \E c \in {j \in Jtis : tokens[j].state = "unused"} :
                  /\ tokens' = [tokens EXCEPT
                       ![c] = [state |-> "live", user |-> u, exp |-> clock + TokenLife]]
                  /\ parent' = [parent EXCEPT ![c] = req[r].jti]
                  /\ Goto(r, [req[r] EXCEPT !.new = c], "respond")
           ELSE UNCHANGED <<tokens, parent>> /\ Goto(r, req[r], "idle")
        /\ UNCHANGED <<users, banned, delivered, clock>>
        /\ Observe


\* session.refresh of the new token, then the response with its cookie.
Respond(r) ==
    /\ req[r].pc = "respond"
    /\ delivered' = delivered \cup
         (IF tokens[req[r].new].state = "gone" THEN {} ELSE {req[r].new})
    /\ Goto(r, req[r], "idle")
    /\ UNCHANGED <<users, banned, tokens, parent, clock>>
    /\ Observe

\* A mutant: the time written is local time, behind the clock's.
WriteDisableLocalTime(r) ==
    /\ req[r].pc = "disable"
    /\ users' = [users EXCEPT ![req[r].user].disabled_at = clock - 1]
    /\ Goto(r, req[r], "idle")
    /\ UNCHANGED <<banned, tokens, delivered, parent, clock>>
    /\ Observe

\* disable_account: the write, decided on the copy of the row.
WriteDisable(r) ==
    LET u == req[r].user
    IN  /\ req[r].pc = "disable"
        /\ users' = IF users[u].here THEN [users EXCEPT ![u].disabled_at = clock]
                                     ELSE users
        /\ Goto(r, req[r], "idle")
        /\ UNCHANGED <<banned, tokens, delivered, parent, clock>>
        /\ Observe

-----------------------------------------------------------------------------
(* The rest of the system.                                                    *)

\* A request ends between two commits and its session is rolled back.
Abort(r) ==
    /\ r \in Busy
    /\ Goto(r, req[r], "idle")
    /\ UNCHANGED <<users, banned, tokens, delivered, parent, clock>>
    /\ Observe

\* A request dies unanswered: the worker is lost, or the client is gone.
Crash(r) == "crash" \in Environment /\ Abort(r)

\* A statement of a request fails (connection lost, time-out, deadlock).  It is
\* answered with an error; only a logout catches it and is answered with success.
Fault(r) == "fault" \in Environment /\ Abort(r)

\* An administrator changes is_active of a user.
SetActive(u) ==
    /\ "active" \in Environment
    /\ users[u].here
    /\ users' = [users EXCEPT ![u].is_active = ~@]
    /\ UNCHANGED <<banned, tokens, delivered, parent, clock, req>>
    /\ Observe

\* A mutant: refresh_tokens.user_id without ON DELETE CASCADE.
DeleteUserNoCascade(u) ==
    /\ "delete" \in Environment
    /\ users[u].here
    /\ users' = [users EXCEPT ![u].here = FALSE]
    /\ banned' = banned \ {u}
    /\ UNCHANGED <<tokens, delivered, parent, clock, req>>
    /\ Observe

\* The user is deleted, by themselves, an administrator or the cleanup; bans
\* and refresh tokens go with the row.
DeleteUser(u) ==
    /\ "delete" \in Environment
    /\ users[u].here
    /\ users' = [users EXCEPT ![u].here = FALSE]
    /\ banned' = banned \ {u}
    /\ tokens' = [j \in Jtis |->
                    IF tokens[j].user = u THEN [tokens[j] EXCEPT !.state = "gone"]
                                          ELSE tokens[j]]
    /\ UNCHANGED <<delivered, parent, clock, req>>
    /\ Observe

\* A ban of the user is created, or the last active one ends.
ChangeBan(u) ==
    /\ "ban" \in Environment
    /\ users[u].here
    /\ banned' = IF u \in banned THEN banned \ {u} ELSE banned \cup {u}
    /\ UNCHANGED <<users, tokens, delivered, parent, clock, req>>
    /\ Observe

Tick ==
    /\ "tick" \in Environment
    /\ clock < MaxClock
    /\ clock' = clock + 1
    /\ UNCHANGED <<users, banned, tokens, delivered, parent, req>>
    /\ Observe

-----------------------------------------------------------------------------
Begin(r) == BeginLogin(r) \/ BeginToken(r) \/ BeginDisable(r)

Step(r) ==
    \/ LoadToken(r)
    \/ LoadUser(r)
    \/ Enable(r)
    \/ Reload(r)
    \/ QueryBan(r)
    \/ VerifyPassword(r)
    \/ Revoke(r)
    \/ Revalidate(r)
    \/ Issue(r)
    \/ Respond(r)
    \/ WriteDisable(r)

Next ==
    \/ \E r \in Reqs : Begin(r)
    \/ \E r \in Reqs : Step(r)
    \/ \E r \in Reqs : Crash(r)
    \/ \E r \in Reqs : Fault(r)
    \/ \E u \in Users : SetActive(u)
    \/ \E u \in Users : DeleteUser(u)
    \/ \E u \in Users : ChangeBan(u)
    \/ Tick

Spec == Init /\ [][Next]_vars

\* A request in progress is a runnable coroutine: the event loop resumes it
\* after every statement.  Nothing is promised about arrivals or outside events.
FairSpec == Spec /\ \A r \in Reqs : WF_vars(Step(r))

-----------------------------------------------------------------------------
(* Properties.                                                                *)

\* Every variable has its type.
TypeOK ==
    /\ users \in [Users -> UserRow]
    /\ banned \subseteq Users
    /\ tokens \in [Jtis -> TokenRow]
    /\ delivered \subseteq Jtis
    /\ parent \in [Jtis -> Jtis \cup {NoJti}]
    /\ clock \in Nat
    /\ req \in [Reqs -> Request]
    /\ seen \in [Reqs -> SUBSET Facts]

\* Rotation (refresh_access_token): once a token has a successor it can never
\* be used again, and the successor belongs to the same user.
RotationSound ==
    \A c \in Jtis : parent[c] # NoJti =>
        /\ tokens[parent[c]].state \in {"revoked", "gone"}
        /\ tokens[parent[c]].user = tokens[c].user

\* A token row never outlives its user, although a token may be inserted by a
\* request that validated the user long before the deletion.
TokenOwnerExists ==
    \A j \in Jtis : tokens[j].state \in {"live", "revoked"} =>
        tokens[j].user \in Users /\ users[tokens[j].user].here

\* The step in which request r stores the token c.
Issues(r, c) ==
    /\ tokens[c].state = "unused"
    /\ tokens'[c].state = "live"
    /\ req'[r].pc = "respond" /\ req'[r].new = c

\* A token is issued only for a request in whose lifetime the user was active
\* and, guests apart, not banned and not past the grace period; a rotation only
\* if the presented token was, in that lifetime, neither revoked nor expired.
Justified(r) ==
    /\ "active" \in seen[r]
    /\ req[r].user \notin Guests => {"within", "unbanned"} \subseteq seen[r]
    /\ req[r].op = "refresh" => "live" \in seen[r]

AdmissionJustified ==
    [][\A c \in Jtis : tokens[c].state = "unused" /\ tokens'[c].state = "live" =>
         \E r \in Reqs : Issues(r, c) /\ Justified(r)]_vars

\* A self-disabled account is re-enabled only by a request of its own user that
\* found it active and within the grace period.
EnableJustified ==
    [][\A u \in Users : users[u].disabled_at # Never /\ users'[u].disabled_at = Never =>
         \E r \in Reqs : /\ req[r].pc = "enable" /\ req'[r].pc = "reload"
                         /\ req[r].user = u
                         /\ {"active", "within"} \subseteq seen[r]]_vars

\* A logout (revoke_refresh_token) is answered with success whatever happens.  One
\* that ends by a statement of its own leaves its token usable only if the user was
\* banned, deactivated or past the grace period when it was validated.  It ends
\* otherwise only when a statement fails, which is swallowed, or the request dies.
LogoutHonest ==
    [][\A r \in Reqs, j \in Jtis, u \in Users :
         /\ req[r].op = "logout" /\ req[r].jti = j /\ req[r].user = u
         /\ r \in Busy /\ r \notin Busy' /\ Usable(tokens[j])'
         => \/ u \in banned \/ ~users[u].is_active \/ ~WithinGrace(users[u])
            \/ ~Step(r) /\ (Fault(r) \/ Crash(r))]_vars

\* security-and-authorization.md, "Logout Revocation": upon a logout the record of
\* its token is marked as revoked.  So a logout that is answered (which excludes
\* only a crash) leaves its token unusable.
LogoutRevokes ==
    [][\A r \in Reqs, j \in Jtis :
         /\ req[r].op = "logout" /\ req[r].jti = j /\ req'[r].pc = "idle"
         /\ (Step(r) \/ Fault(r))
         => ~Usable(tokens[j])']_vars

\* security-and-authorization.md, "Rotation on Use": a token that was used is
\* revoked, so it is exchanged for one successor only.
SingleSuccessor ==
    \A c, d \in Jtis : parent[c] # NoJti /\ parent[c] = parent[d] => c = d
=============================================================================
