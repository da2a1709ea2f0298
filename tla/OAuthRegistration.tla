-------------------------- MODULE OAuthRegistration -------------------------
(* Federated login: a provider's identity is found, linked to an account with *)
(* the same e-mail address, or registered in two stages with a pending token. *)
(* Every statement of a request is a step; create_and_commit is one, because  *)
(* the unique indexes and foreign keys decide it when the row is inserted.    *)
EXTENDS FiniteSets

CONSTANTS Identities,    \* accounts at the providers
          Emails, Names, UserIds,
          Reqs,          \* request slots of the server
          NoUser, NoEmail, NoName, NoIdentity,
          EmailOf,       \* the address a provider reports for an identity
          Environment    \* kinds of outside events that happen

ASSUME ConstantsAssumption ==
    /\ NoUser \notin UserIds
    /\ NoIdentity \notin Identities
    /\ NoEmail \notin Emails
    /\ NoName \notin Names
    /\ EmailOf \in [Identities -> Emails \cup {NoEmail}]

VARIABLES users,      \* the users table
          links,      \* the oauth_accounts table: (oauth_name, provider_user_id) is unique
          pending,    \* identities with a pending registration token that is not expired
          req,        \* the requests in progress
          sessions,   \* refresh tokens: the identity they were issued to, their user
          linked,     \* history: the identities that were ever linked
          died        \* history: users whose registration died between its commits

vars == <<users, links, pending, req, sessions, linked, died>>

-----------------------------------------------------------------------------
(* Types.                                                                     *)

UserRow == [state : {"unused", "stored", "gone"}, name : Names \cup {NoName},
            email : Emails \cup {NoEmail},
            origin : Identities \cup {NoIdentity}]   \* history: who registered it

Request == [pc : {"idle", "lookup", "email", "link", "issue", "create", "linknew"},
            identity : Identities \cup {NoIdentity},
            user : UserIds \cup {NoUser}, name : Names \cup {NoName}]

NewRow == [state |-> "unused", name |-> NoName, email |-> NoEmail,
           origin |-> NoIdentity]

Idle == [pc |-> "idle", identity |-> NoIdentity, user |-> NoUser, name |-> NoName]

TypeOK ==
    /\ users \in [UserIds -> UserRow]
    /\ links \in [Identities -> UserIds \cup {NoUser}]
    /\ pending \subseteq Identities
    /\ req \in [Reqs -> Request]
    /\ sessions \subseteq Identities \X UserIds
    /\ linked \subseteq Identities
    /\ died \subseteq UserIds

-----------------------------------------------------------------------------
Stored == {u \in UserIds : users[u].state = "stored"}

Unused == {u \in UserIds : users[u].state = "unused"}

\* Rows that the unique indexes on username and email would clash with.
Clashes(name, email) ==
    {u \in Stored : users[u].name = name \/ (email # NoEmail /\ users[u].email = email)}

Goto(r, q, pc) ==
    req' = [req EXCEPT ![r] = IF pc = "idle" THEN Idle ELSE [q EXCEPT !.pc = pc]]

AddLink(i, u) ==
    /\ links' = [links EXCEPT ![i] = u]
    /\ linked' = linked \cup {i}

Init ==
    /\ users = [u \in UserIds |-> NewRow]
    /\ links = [i \in Identities |-> NoUser]
    /\ pending = {}
    /\ req = [r \in Reqs |-> Idle]
    /\ sessions = {}
    /\ linked = {}
    /\ died = {}

-----------------------------------------------------------------------------
(* The provider's callback.                                                   *)

\* The code was exchanged for the identity's profile.
BeginCallback(r) ==
    /\ req[r].pc = "idle"
    /\ \E i \in Identities : Goto(r, [Idle EXCEPT !.identity = i], "lookup")
    /\ UNCHANGED <<users, links, pending, sessions, linked, died>>

\* The registration sandbox: a pending token instead of a user.
HandOutPending(r) ==
    /\ pending' = pending \cup {req[r].identity}
    /\ Goto(r, req[r], "idle")

\* get_by_provider, with the user of the link.
LookupIdentity(r) ==
    LET i == req[r].identity
    IN  /\ req[r].pc = "lookup"
        /\ \/ /\ links[i] # NoUser
              /\ Goto(r, [req[r] EXCEPT !.user = links[i]], "issue")
              /\ UNCHANGED pending
           \/ /\ links[i] = NoUser /\ EmailOf[i] # NoEmail
              /\ Goto(r, req[r], "email")
              /\ UNCHANGED pending
           \/ /\ links[i] = NoUser /\ EmailOf[i] = NoEmail
              /\ HandOutPending(r)
        /\ UNCHANGED <<users, links, sessions, linked, died>>

\* The account with the address the provider reports.
LookupEmail(r) ==
    LET owners == {u \in Stored : users[u].email = EmailOf[req[r].identity]}
    IN  /\ req[r].pc = "email"
        /\ \/ /\ \E u \in owners : Goto(r, [req[r] EXCEPT !.user = u], "link")
              /\ UNCHANGED pending
           \/ owners = {} /\ HandOutPending(r)
        /\ UNCHANGED <<users, links, sessions, linked, died>>

\* A mutant: the link is written over the one of a faster request.
LinkUserOverwrite(r) ==
    LET q == req[r]
    IN  /\ q.pc = "link"
        /\ IF q.user \in Stored
           THEN AddLink(q.identity, q.user) /\ Goto(r, q, "issue")
           ELSE UNCHANGED <<links, linked>> /\ Goto(r, q, "idle")
        /\ UNCHANGED <<users, pending, sessions, died>>

\* create_oauth_account for that account.  If another request linked the
\* identity first, the unique constraint refuses; the branch for that race
\* returns the user, but the rollback has expired it and its first use fails.
LinkUser(r) ==
    LET q == req[r]
    IN  /\ q.pc = "link"
        /\ IF links[q.identity] = NoUser /\ q.user \in Stored
           THEN AddLink(q.identity, q.user) /\ Goto(r, q, "issue")
           ELSE UNCHANGED <<links, linked>> /\ Goto(r, q, "idle")
        /\ UNCHANGED <<users, pending, sessions, died>>

\* A mutant: the token is stored without its user.
IssueTokensUnowned(r) ==
    /\ req[r].pc = "issue"
    /\ sessions' = sessions \cup {<<req[r].identity, NoUser>>}
    /\ Goto(r, req[r], "idle")
    /\ UNCHANGED <<users, links, pending, linked, died>>

\* get_access_token; the validations of AuthTokens may refuse the user.
IssueTokens(r) ==
    LET q == req[r]
    IN  /\ q.pc = "issue"
        /\ sessions' \in {sessions} \cup
             (IF q.user \in Stored THEN {sessions \cup {<<q.identity, q.user>>}} ELSE {})
        /\ Goto(r, q, "idle")
        /\ UNCHANGED <<users, links, pending, linked, died>>

-----------------------------------------------------------------------------
(* POST /complete-registration.                                               *)

\* The client presents a pending token, any number of times, and a username.
BeginComplete(r) ==
    /\ req[r].pc = "idle"
    /\ \E i \in pending, n \in Names :
          Goto(r, [Idle EXCEPT !.identity = i, !.name = n], "create")
    /\ UNCHANGED <<users, links, pending, sessions, linked, died>>

\* register_oauth_user: the user is created and committed on its own.
\* Bound: a user id is left.
CreateUser(r) ==
    LET q     == req[r]
        email == EmailOf[q.identity]
    IN  /\ q.pc = "create"
        /\ \/ /\ Clashes(q.name, email) = {}
              /\ \E u \in Unused :
                    /\ users' = [users EXCEPT ![u] =
                         [state |-> "stored", name |-> q.name, email |-> email,
                          origin |-> q.identity]]
                    /\ Goto(r, [q EXCEPT !.user = u], "linknew")
           \/ Clashes(q.name, email) # {} /\ UNCHANGED users /\ Goto(r, q, "idle")
        /\ UNCHANGED <<links, pending, sessions, linked, died>>

\* A mutant: the new user is authenticated without being linked.
LinkNewSkipped(r) ==
    /\ req[r].pc = "linknew"
    /\ Goto(r, req[r], "issue")
    /\ UNCHANGED <<users, links, pending, sessions, linked, died>>

\* Then it is linked, unless the identity got an account in the meantime.
LinkNewUser(r) ==
    LET q == req[r]
    IN  /\ q.pc = "linknew"
        /\ IF links[q.identity] = NoUser /\ q.user \in Stored
           THEN AddLink(q.identity, q.user) /\ Goto(r, q, "issue")
           ELSE UNCHANGED <<links, linked>> /\ Goto(r, q, "idle")
        /\ UNCHANGED <<users, pending, sessions, died>>

-----------------------------------------------------------------------------
(* The rest of the system.                                                    *)

\* A pending token expires.
Expire(i) ==
    /\ i \in pending
    /\ pending' = pending \ {i}
    /\ UNCHANGED <<users, links, req, sessions, linked, died>>

\* A user is deleted, with their links and refresh tokens.
DeleteUser(u) ==
    /\ "delete" \in Environment
    /\ u \in Stored
    /\ users' = [users EXCEPT ![u] = [NewRow EXCEPT !.state = "gone"]]
    /\ links' = [i \in Identities |-> IF links[i] = u THEN NoUser ELSE links[i]]
    /\ sessions' = {s \in sessions : s[2] # u}
    /\ died' = died \ {u}
    /\ UNCHANGED <<pending, req, linked>>

\* A user changes their address (_update_user); the unique index may refuse.
ChangeEmail(u, e) ==
    /\ "edit" \in Environment
    /\ u \in Stored
    /\ \A v \in Stored : users[v].email # e
    /\ users' = [users EXCEPT ![u].email = e]
    /\ UNCHANGED <<links, pending, req, sessions, linked, died>>

\* A request dies between two statements.
Crash(r) ==
    /\ "crash" \in Environment
    /\ req[r].pc # "idle"
    /\ died' = died \cup (IF req[r].pc = "linknew" THEN {req[r].user} ELSE {})
    /\ Goto(r, req[r], "idle")
    /\ UNCHANGED <<users, links, pending, sessions, linked>>

Next ==
    \/ \E r \in Reqs : BeginCallback(r)
    \/ \E r \in Reqs : LookupIdentity(r)
    \/ \E r \in Reqs : LookupEmail(r)
    \/ \E r \in Reqs : LinkUser(r)
    \/ \E r \in Reqs : IssueTokens(r)
    \/ \E r \in Reqs : BeginComplete(r)
    \/ \E r \in Reqs : CreateUser(r)
    \/ \E r \in Reqs : LinkNewUser(r)
    \/ \E r \in Reqs : Crash(r)
    \/ \E u \in UserIds : DeleteUser(u)
    \/ \E u \in UserIds, e \in Emails : ChangeEmail(u, e)
    \/ \E i \in Identities : Expire(i)

Spec == Init /\ [][Next]_vars

-----------------------------------------------------------------------------
(* Properties.                                                                *)

\* However callbacks, completions, changes of address and deletions interleave,
\* the tokens an identity holds are of the account it is linked to now; so it
\* never acts for two accounts, nor for one that was linked away from it.
SessionsLinked == \A s \in sessions : links[s[1]] = s[2]

\* A registration that is over and left its user without a link has died
\* between its two commits, or lost the race to another registration or to a
\* link by e-mail of the same identity.
LeftoverHasRival ==
    \A u \in Stored \ died :
        (\A r \in Reqs : req[r].user # u) => users[u].origin \in linked
=============================================================================
