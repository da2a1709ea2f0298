----------------------- MODULE OAuthRegistrationProofs ----------------------
(* Safety of OAuthRegistration for every set of identities, users, addresses  *)
(* and requests.                                                              *)
EXTENDS OAuthRegistration, TLAPS

\* What the program counter of a request says about its data.
ReqShape ==
    \A r \in Reqs :
        /\ req[r].pc # "idle" => req[r].identity \in Identities
        /\ req[r].pc \in {"link", "issue", "linknew"} => req[r].user \in UserIds
        /\ req[r].user # NoUser => req[r].pc \in {"link", "issue", "linknew"}

\* A user a request works with has been stored, and may be gone since.
UsersKnown ==
    \A r \in Reqs : req[r].user # NoUser => users[req[r].user].state # "unused"

\* A link is to a user who exists, and is remembered.
LinksStored ==
    \A i \in Identities : links[i] # NoUser => links[i] \in Stored /\ i \in linked

\* A request about to issue tokens does so for the account its identity is
\* linked to, unless that account is gone.
IssueLinked ==
    \A r \in Reqs : req[r].pc = "issue" /\ req[r].user \in Stored =>
        links[req[r].identity] = req[r].user

\* A stored user came from a link or registration that is remembered, is being
\* linked, or died with its request.
Accounted ==
    \A u \in Stored \ died :
        \/ users[u].origin \in linked
        \/ \E r \in Reqs : /\ req[r].pc = "linknew" /\ req[r].user = u
                           /\ req[r].identity = users[u].origin

IInv ==
    /\ TypeOK
    /\ ReqShape
    /\ UsersKnown
    /\ LinksStored
    /\ IssueLinked
    /\ SessionsLinked
    /\ Accounted

Pcs == {"idle", "lookup", "email", "link", "issue", "create", "linknew"}

-----------------------------------------------------------------------------
LEMMA InitInv == Init => IInv
<1> SUFFICES ASSUME Init PROVE IInv
  OBVIOUS
<1>1. NewRow \in UserRow /\ NewRow.state = "unused"
  BY DEF NewRow, UserRow
<1>2. Idle \in Request /\ Idle.pc = "idle" /\ Idle.user = NoUser
  BY DEF Idle, Request
<1>3. Stored = {}
  BY <1>1 DEF Init, Stored
<1>4. TypeOK
  BY <1>1, <1>2 DEF Init, TypeOK
<1>5. ReqShape /\ UsersKnown
  BY <1>2 DEF Init, ReqShape, UsersKnown
<1>6. LinksStored /\ IssueLinked /\ SessionsLinked /\ Accounted
  BY <1>2, <1>3 DEF Init, LinksStored, IssueLinked, SessionsLinked, Accounted
<1> QED
  BY <1>4, <1>5, <1>6 DEF IInv

\* The data q of a request at pc is as the invariant wants it.
Fits(q, pc) ==
    /\ pc # "idle" => q.identity \in Identities
    /\ pc \in {"link", "issue", "linknew"} => q.user \in UserIds
    /\ pc \notin {"idle", "link", "issue", "linknew"} => q.user = NoUser
    /\ pc # "idle" /\ q.user # NoUser => users[q.user].state # "unused"
    /\ pc = "issue" /\ q.user \in Stored => links[q.identity] = q.user

\* A request goes on with such data, and only that request moves.
LEMMA GotoReq ==
    ASSUME TypeOK, ReqShape, UsersKnown,
           NEW r \in Reqs, NEW q \in Request, NEW pc \in Pcs, Goto(r, q, pc), Fits(q, pc)'
    PROVE  /\ req' \in [Reqs -> Request]
           /\ \A s \in Reqs \ {r} : req'[s] = req[s]
           /\ req'[r].pc = pc
           /\ pc # "idle" => req'[r].identity = q.identity /\ req'[r].user = q.user
           /\ pc = "idle" => req'[r].user = NoUser
           /\ ReqShape'
<1> DEFINE new == [q EXCEPT !.pc = pc]
<1>1. new \in Request /\ new.pc = pc /\ new.identity = q.identity /\ new.user = q.user
  BY DEF Request, Pcs
<1>2. Idle \in Request /\ Idle.pc = "idle" /\ Idle.user = NoUser
  BY DEF Idle, Request
<1>3. req' = [req EXCEPT ![r] = IF pc = "idle" THEN Idle ELSE new]
  BY DEF Goto
<1> HIDE DEF new
<1>4. /\ req' \in [Reqs -> Request]
      /\ req'[r] = IF pc = "idle" THEN Idle ELSE new
      /\ \A s \in Reqs \ {r} : req'[s] = req[s]
  BY <1>1, <1>2, <1>3 DEF TypeOK
<1>5. ReqShape'
  BY <1>1, <1>2, <1>4 DEF ReqShape, Fits
<1> QED
  BY <1>1, <1>2, <1>4, <1>5

\* A step of a request that writes to no table, and neither begins nor ends the
\* linking of a new user.
LEMMA MoveInv ==
    ASSUME IInv, NEW r \in Reqs, NEW q \in Request, NEW pc \in Pcs, Goto(r, q, pc),
           Fits(q, pc), req[r].pc # "linknew", pc # "linknew",
           pending' \subseteq Identities, UNCHANGED <<users, links, sessions, linked, died>>
    PROVE  IInv'
<1>1. Fits(q, pc)' /\ Stored' = Stored
  BY DEF Fits, Stored
<1>2. /\ req' \in [Reqs -> Request]
      /\ \A s \in Reqs \ {r} : req'[s] = req[s]
      /\ req'[r].pc = pc
      /\ pc # "idle" => req'[r].identity = q.identity /\ req'[r].user = q.user
      /\ pc = "idle" => req'[r].user = NoUser
      /\ ReqShape'
  BY <1>1, GotoReq DEF IInv
<1>3. TypeOK'
  BY <1>2 DEF IInv, TypeOK
<1>4. UsersKnown'
  BY <1>2 DEF IInv, UsersKnown, Fits
<1>5. IssueLinked'
  BY <1>1, <1>2 DEF IInv, IssueLinked, Fits
<1>6. Accounted'
  BY <1>1, <1>2 DEF IInv, Accounted
<1>7. LinksStored' /\ SessionsLinked'
  BY <1>1 DEF IInv, LinksStored, SessionsLinked
<1> QED
  BY <1>2, <1>3, <1>4, <1>5, <1>6, <1>7 DEF IInv

-----------------------------------------------------------------------------
LEMMA BeginCallbackInv ==
    ASSUME IInv, NEW r \in Reqs, BeginCallback(r) PROVE IInv'
<1>1. PICK i \in Identities : Goto(r, [Idle EXCEPT !.identity = i], "lookup")
  BY DEF BeginCallback
<1> DEFINE q == [Idle EXCEPT !.identity = i]
<1>2. q \in Request /\ q.identity = i /\ q.user = NoUser
  BY DEF Idle, Request
<1>3. Goto(r, q, "lookup")
  BY <1>1
<1> HIDE DEF q
<1>4. Fits(q, "lookup")
  BY <1>2 DEF Fits
<1>5. pending' \subseteq Identities
  BY DEF BeginCallback, IInv, TypeOK
<1> QED
  BY <1>2, <1>3, <1>4, <1>5, MoveInv DEF BeginCallback, Pcs

\* A request ends without having written anything.
LEMMA EndInv ==
    ASSUME IInv, NEW r \in Reqs, Goto(r, req[r], "idle"), req[r].pc # "linknew",
           pending' \subseteq Identities, UNCHANGED <<users, links, sessions, linked, died>>
    PROVE  IInv'
<1>1. req[r] \in Request /\ "idle" \in Pcs /\ Fits(req[r], "idle")
  BY DEF IInv, TypeOK, Pcs, Fits
<1> QED
  BY <1>1, MoveInv

LEMMA LookupIdentityInv ==
    ASSUME IInv, NEW r \in Reqs, LookupIdentity(r) PROVE IInv'
<1> DEFINE i == req[r].identity
<1>0. /\ req[r] \in Request /\ req[r].pc = "lookup" /\ req[r].user = NoUser
      /\ i \in Identities /\ UNCHANGED <<users, links, sessions, linked, died>>
  BY DEF LookupIdentity, IInv, TypeOK, ReqShape
<1>1. CASE links[i] # NoUser /\ Goto(r, [req[r] EXCEPT !.user = links[i]], "issue")
           /\ UNCHANGED pending
  <2> DEFINE q == [req[r] EXCEPT !.user = links[i]]
  <2>1. links[i] \in UserIds /\ users[links[i]].state # "unused"
    BY <1>0, <1>1 DEF IInv, TypeOK, LinksStored, Stored
  <2>2. q \in Request /\ q.identity = i /\ q.user = links[i]
    BY <1>0, <2>1 DEF Request
  <2>3. Goto(r, q, "issue")
    BY <1>1
  <2> HIDE DEF q
  <2>4. Fits(q, "issue")
    BY <1>0, <2>1, <2>2 DEF Fits
  <2> QED
    BY <1>0, <1>1, <2>2, <2>3, <2>4, MoveInv DEF Pcs, IInv, TypeOK
<1>2. CASE Goto(r, req[r], "email") /\ UNCHANGED pending
  <2>1. Fits(req[r], "email")
    BY <1>0 DEF Fits
  <2> QED
    BY <1>0, <1>2, <2>1, MoveInv DEF Pcs, IInv, TypeOK
<1>3. CASE HandOutPending(r)
  <2>1. pending' \subseteq Identities
    BY <1>0, <1>3 DEF HandOutPending, IInv, TypeOK
  <2> QED
    BY <1>0, <1>3, <2>1, EndInv DEF HandOutPending
<1> QED
  BY <1>1, <1>2, <1>3 DEF LookupIdentity

LEMMA LookupEmailInv ==
    ASSUME IInv, NEW r \in Reqs, LookupEmail(r) PROVE IInv'
<1>0. /\ req[r] \in Request /\ req[r].pc = "email" /\ req[r].identity \in Identities
      /\ UNCHANGED <<users, links, sessions, linked, died>>
  BY DEF LookupEmail, IInv, TypeOK, ReqShape
<1>1. ASSUME NEW u \in Stored, Goto(r, [req[r] EXCEPT !.user = u], "link"), UNCHANGED pending
      PROVE  IInv'
  <2> DEFINE q == [req[r] EXCEPT !.user = u]
  <2>1. u \in UserIds /\ users[u].state # "unused"
    BY DEF Stored
  <2>2. q \in Request /\ q.identity = req[r].identity /\ q.user = u
    BY <1>0, <2>1 DEF Request
  <2>3. Goto(r, q, "link")
    BY <1>1
  <2> HIDE DEF q
  <2>4. Fits(q, "link")
    BY <1>0, <2>1, <2>2 DEF Fits
  <2> QED
    BY <1>0, <1>1, <2>2, <2>3, <2>4, MoveInv DEF Pcs, IInv, TypeOK
<1>2. CASE HandOutPending(r)
  <2>1. pending' \subseteq Identities
    BY <1>0, <1>2 DEF HandOutPending, IInv, TypeOK
  <2> QED
    BY <1>0, <1>2, <2>1, EndInv DEF HandOutPending
<1> QED
  BY <1>1, <1>2 DEF LookupEmail

LEMMA BeginCompleteInv ==
    ASSUME IInv, NEW r \in Reqs, BeginComplete(r) PROVE IInv'
<1>1. PICK i \in pending, n \in Names :
         Goto(r, [Idle EXCEPT !.identity = i, !.name = n], "create")
  BY DEF BeginComplete
<1> DEFINE q == [Idle EXCEPT !.identity = i, !.name = n]
<1>2. i \in Identities
  BY DEF IInv, TypeOK
<1>3. q \in Request /\ q.identity = i /\ q.user = NoUser
  BY <1>2 DEF Idle, Request
<1>4. Goto(r, q, "create")
  BY <1>1
<1> HIDE DEF q
<1>5. Fits(q, "create")
  BY <1>2, <1>3 DEF Fits
<1>6. pending' \subseteq Identities
  BY DEF BeginComplete, IInv, TypeOK
<1> QED
  BY <1>3, <1>4, <1>5, <1>6, MoveInv DEF BeginComplete, Pcs

-----------------------------------------------------------------------------
\* An identity without a link gets one to a stored user.  Whoever is about to
\* issue tokens for that identity does so for a user who is gone.
LEMMA AddLinkInv ==
    ASSUME IInv, NEW r \in Reqs, req[r].pc \in {"link", "linknew"}, req[r].user \in Stored,
           links[req[r].identity] = NoUser,
           AddLink(req[r].identity, req[r].user), Goto(r, req[r], "issue"),
           UNCHANGED <<users, pending, sessions, died>>
    PROVE  IInv'
<1> DEFINE i == req[r].identity
           u == req[r].user
<1>1. /\ i \in Identities /\ u \in UserIds /\ users[u].state # "unused"
      /\ req[r] \in Request /\ NoUser \notin UserIds
  BY ConstantsAssumption DEF IInv, TypeOK, ReqShape, UsersKnown
<1>2. /\ links' = [links EXCEPT ![i] = u] /\ linked' = linked \cup {i} /\ Stored' = Stored
  BY DEF AddLink, Stored
<1>3. /\ links' \in [Identities -> UserIds \cup {NoUser}] /\ links'[i] = u
      /\ \A j \in Identities \ {i} : links'[j] = links[j]
  BY <1>1, <1>2 DEF IInv, TypeOK
<1>4. PICK q \in Request : q = req[r]
  BY <1>1
<1>5. Fits(q, "issue")' /\ Goto(r, q, "issue")
  BY <1>1, <1>2, <1>3, <1>4 DEF Fits
<1>6. /\ req' \in [Reqs -> Request]
      /\ \A s \in Reqs \ {r} : req'[s] = req[s]
      /\ req'[r].pc = "issue" /\ req'[r].identity = i /\ req'[r].user = u
      /\ ReqShape'
  BY <1>4, <1>5, GotoReq DEF IInv, Pcs
<1> HIDE DEF i, u
<1>7. TypeOK'
  BY <1>1, <1>2, <1>3, <1>6 DEF IInv, TypeOK
<1>8. UsersKnown'
  BY <1>1, <1>6 DEF IInv, UsersKnown
<1>9. LinksStored'
  BY <1>2, <1>3 DEF IInv, LinksStored, i, u
<1>10. IssueLinked'
  <2> SUFFICES ASSUME NEW s \in Reqs, req'[s].pc = "issue", req'[s].user \in Stored
               PROVE  links'[req'[s].identity] = req'[s].user
    BY <1>2 DEF IssueLinked
  <2>1. CASE s = r
    BY <1>3, <1>6, <2>1
  <2>2. CASE s # r
    <3>1. /\ links[req[s].identity] = req[s].user /\ req[s].user \in UserIds
          /\ req[s].identity \in Identities
      BY <1>6, <2>2 DEF IInv, IssueLinked, ReqShape
    <3> QED
      BY <1>1, <1>3, <1>6, <2>2, <3>1 DEF i
  <2> QED
    BY <2>1, <2>2
<1>11. SessionsLinked'
  <2> SUFFICES ASSUME NEW s \in sessions PROVE links'[s[1]] = s[2]
    BY DEF SessionsLinked
  <2>1. s[1] \in Identities /\ s[2] \in UserIds /\ links[s[1]] = s[2]
    BY DEF IInv, TypeOK, SessionsLinked
  <2> QED
    BY <1>1, <1>3, <2>1 DEF i
<1>12. Accounted'
  <2> SUFFICES ASSUME NEW v \in Stored \ died, users[v].origin \notin linked'
               PROVE  \E s \in Reqs : /\ req'[s].pc = "linknew" /\ req'[s].user = v
                                      /\ req'[s].identity = users[v].origin
    BY <1>2 DEF Accounted
  <2>1. PICK s \in Reqs : /\ req[s].pc = "linknew" /\ req[s].user = v
                          /\ req[s].identity = users[v].origin
    BY <1>2 DEF IInv, Accounted
  <2>2. s # r
    BY <1>2, <2>1 DEF i
  <2> QED
    BY <1>6, <2>1, <2>2
<1> QED
  BY <1>6, <1>7, <1>8, <1>9, <1>10, <1>11, <1>12 DEF IInv

\* The link of an existing account, and the race that it loses.
LEMMA LinkUserInv ==
    ASSUME IInv, NEW r \in Reqs, LinkUser(r) PROVE IInv'
<1>1. req[r].pc = "link" /\ UNCHANGED <<users, pending, sessions, died>>
  BY DEF LinkUser
<1>2. CASE links[req[r].identity] = NoUser /\ req[r].user \in Stored
  BY <1>1, <1>2, AddLinkInv DEF LinkUser
<1>3. CASE ~(links[req[r].identity] = NoUser /\ req[r].user \in Stored)
  <2>1. Goto(r, req[r], "idle") /\ UNCHANGED <<links, linked>>
    BY <1>3 DEF LinkUser
  <2> QED
    BY <1>1, <2>1, EndInv DEF IInv, TypeOK
<1> QED
  BY <1>2, <1>3

\* A request that was linking a new user ends.  The user is gone, is counted
\* among those whose request died, or the identity was linked by a faster one.
LEMMA AbandonInv ==
    ASSUME IInv, NEW r \in Reqs, Goto(r, req[r], "idle"),
           UNCHANGED <<users, links, pending, sessions, linked>>,
           died' \subseteq UserIds, died \subseteq died',
           req[r].pc = "linknew" =>
              \/ req[r].user \notin Stored \ died'
              \/ links[req[r].identity] # NoUser
    PROVE  IInv'
<1>1. PICK q \in Request : q = req[r]
  BY DEF IInv, TypeOK
<1>2. Fits(q, "idle")' /\ Stored' = Stored /\ Goto(r, q, "idle")
  BY <1>1 DEF Fits, Stored
<1>3. /\ req' \in [Reqs -> Request]
      /\ \A s \in Reqs \ {r} : req'[s] = req[s]
      /\ req'[r].pc = "idle" /\ req'[r].user = NoUser
      /\ ReqShape'
  BY <1>2, GotoReq DEF IInv, Pcs
<1>4. TypeOK' /\ UsersKnown' /\ IssueLinked' /\ LinksStored' /\ SessionsLinked'
  BY <1>2, <1>3 DEF IInv, TypeOK, UsersKnown, IssueLinked, LinksStored, SessionsLinked
<1>5. Accounted'
  <2> SUFFICES ASSUME NEW v \in Stored \ died', users[v].origin \notin linked
               PROVE  \E s \in Reqs : /\ req'[s].pc = "linknew" /\ req'[s].user = v
                                      /\ req'[s].identity = users[v].origin
    BY <1>2 DEF Accounted
  <2>1. PICK s \in Reqs : /\ req[s].pc = "linknew" /\ req[s].user = v
                          /\ req[s].identity = users[v].origin
    BY DEF IInv, Accounted
  <2>2. s # r
    BY <2>1 DEF IInv, LinksStored, ReqShape
  <2> QED
    BY <1>3, <2>1, <2>2
<1> QED
  BY <1>3, <1>4, <1>5 DEF IInv

LEMMA LinkNewUserInv ==
    ASSUME IInv, NEW r \in Reqs, LinkNewUser(r) PROVE IInv'
<1>1. req[r].pc = "linknew" /\ UNCHANGED <<users, pending, sessions, died>>
  BY DEF LinkNewUser
<1>2. CASE links[req[r].identity] = NoUser /\ req[r].user \in Stored
  BY <1>1, <1>2, AddLinkInv DEF LinkNewUser
<1>3. CASE ~(links[req[r].identity] = NoUser /\ req[r].user \in Stored)
  <2>1. Goto(r, req[r], "idle") /\ UNCHANGED <<links, linked>>
    BY <1>3 DEF LinkNewUser
  <2> QED
    BY <1>1, <1>3, <2>1, AbandonInv DEF IInv, TypeOK
<1> QED
  BY <1>2, <1>3

LEMMA CrashInv ==
    ASSUME IInv, NEW r \in Reqs, Crash(r) PROVE IInv'
<1>1. /\ Goto(r, req[r], "idle") /\ UNCHANGED <<users, links, pending, sessions, linked>>
      /\ died' = died \cup (IF req[r].pc = "linknew" THEN {req[r].user} ELSE {})
  BY DEF Crash
<1>2. req[r].pc = "linknew" => req[r].user \in UserIds
  BY DEF IInv, ReqShape
<1>3. died' \subseteq UserIds
  BY <1>1, <1>2 DEF IInv, TypeOK
<1> QED
  BY <1>1, <1>3, AbandonInv


\* The new tokens, if any, are of the account that the identity is linked to.
LEMMA IssueTokensInv ==
    ASSUME IInv, NEW r \in Reqs, IssueTokens(r) PROVE IInv'
<1>1. /\ req[r].pc = "issue" /\ Goto(r, req[r], "idle")
      /\ UNCHANGED <<users, links, pending, linked, died>>
  BY DEF IssueTokens
<1>2. \A s \in sessions' \ sessions :
         /\ s \in Identities \X UserIds
         /\ links[s[1]] = s[2]
  <2> SUFFICES ASSUME NEW s \in sessions', s \notin sessions
               PROVE  s \in Identities \X UserIds /\ links[s[1]] = s[2]
    OBVIOUS
  <2>1. s = <<req[r].identity, req[r].user>> /\ req[r].user \in Stored
    BY DEF IssueTokens
  <2>2. req[r].identity \in Identities /\ req[r].user \in UserIds
    BY <1>1 DEF IInv, ReqShape
  <2> QED
    BY <1>1, <2>1, <2>2 DEF IInv, IssueLinked
<1>3. PICK q \in Request : q = req[r]
  BY DEF IInv, TypeOK
<1>4. Fits(q, "idle")' /\ Stored' = Stored /\ Goto(r, q, "idle")
  BY <1>1, <1>3 DEF Fits, Stored
<1>5. /\ req' \in [Reqs -> Request]
      /\ \A s \in Reqs \ {r} : req'[s] = req[s]
      /\ req'[r].pc = "idle" /\ req'[r].user = NoUser
      /\ ReqShape'
  BY <1>4, GotoReq DEF IInv, Pcs
<1>6. SessionsLinked' /\ sessions' \subseteq Identities \X UserIds
  BY <1>1, <1>2 DEF IInv, SessionsLinked, TypeOK
<1>7. TypeOK' /\ UsersKnown' /\ IssueLinked' /\ LinksStored'
  BY <1>1, <1>4, <1>5, <1>6 DEF IInv, TypeOK, UsersKnown, IssueLinked, LinksStored
<1>8. Accounted'
  BY <1>1, <1>4, <1>5 DEF IInv, Accounted
<1> QED
  BY <1>5, <1>6, <1>7, <1>8 DEF IInv

\* A row is taken by a new user, whom the request is about to link.
LEMMA CreateUserInv ==
    ASSUME IInv, NEW r \in Reqs, CreateUser(r) PROVE IInv'
<1>1. /\ req[r].pc = "create" /\ req[r].user = NoUser /\ req[r].identity \in Identities
      /\ UNCHANGED <<links, pending, sessions, linked, died>>
  BY DEF CreateUser, IInv, ReqShape
<1>2. CASE UNCHANGED users /\ Goto(r, req[r], "idle")
  BY <1>1, <1>2, EndInv DEF IInv, TypeOK
<1>3. ASSUME NEW u \in Unused,
             users' = [users EXCEPT ![u] =
                [state |-> "stored", name |-> req[r].name, email |-> EmailOf[req[r].identity],
                 origin |-> req[r].identity]],
             Goto(r, [req[r] EXCEPT !.user = u], "linknew")
      PROVE  IInv'
  <2>1. /\ u \in UserIds /\ users[u].state = "unused" /\ u # NoUser
        /\ users' \in [UserIds -> UserRow]
        /\ users'[u].state = "stored" /\ users'[u].origin = req[r].identity
        /\ \A v \in UserIds \ {u} : users'[v] = users[v]
    <3>1. u \in UserIds /\ users[u].state = "unused" /\ u # NoUser
      BY ConstantsAssumption DEF Unused
    <3>2. [state |-> "stored", name |-> req[r].name, email |-> EmailOf[req[r].identity],
           origin |-> req[r].identity] \in UserRow
      BY <1>1, ConstantsAssumption DEF UserRow, Request, IInv, TypeOK
    <3> QED
      BY <1>3, <3>1, <3>2 DEF IInv, TypeOK
  <2>2. Stored' = Stored \cup {u}
    BY <2>1 DEF Stored
  <2>a. req[r] \in Request
    BY DEF IInv, TypeOK
  <2>b. [req[r] EXCEPT !.user = u] \in Request
    BY <2>1, <2>a DEF Request
  <2>3. PICK q \in Request : q = [req[r] EXCEPT !.user = u]
    BY <2>b
  <2>4. q.user = u /\ q.identity = req[r].identity /\ Goto(r, q, "linknew")
    BY <1>3, <2>3 DEF IInv, TypeOK, Request
  <2>5. Fits(q, "linknew")'
    BY <1>1, <2>1, <2>4 DEF Fits
  <2>6. /\ req' \in [Reqs -> Request]
        /\ \A s \in Reqs \ {r} : req'[s] = req[s]
        /\ req'[r].pc = "linknew" /\ req'[r].identity = req[r].identity /\ req'[r].user = u
        /\ ReqShape'
    BY <2>4, <2>5, GotoReq DEF IInv, Pcs
  <2>7. \A s \in Reqs \ {r} : req[s].user # u
    BY <2>1 DEF IInv, UsersKnown
  <2>8. TypeOK'
    BY <1>1, <2>1, <2>6 DEF IInv, TypeOK
  <2>9. UsersKnown'
    <3> SUFFICES ASSUME NEW s \in Reqs, req'[s].user # NoUser
                 PROVE  users'[req'[s].user].state # "unused"
      BY DEF UsersKnown
    <3>1. CASE s = r
      BY <2>1, <2>6, <3>1
    <3>2. CASE s # r
      <4>1. req[s].user \in UserIds \ {u} /\ users[req[s].user].state # "unused"
        BY <2>6, <2>7, <3>2 DEF IInv, UsersKnown, ReqShape
      <4> QED
        BY <2>1, <2>6, <3>2, <4>1
    <3> QED
      BY <3>1, <3>2
  <2>10. LinksStored' /\ SessionsLinked'
    BY <1>1, <2>2 DEF IInv, LinksStored, SessionsLinked
  <2>11. IssueLinked'
    BY <1>1, <2>2, <2>6, <2>7 DEF IInv, IssueLinked
  <2>12. Accounted'
    <3> SUFFICES ASSUME NEW v \in Stored' \ died, users'[v].origin \notin linked
                 PROVE  \E s \in Reqs : /\ req'[s].pc = "linknew" /\ req'[s].user = v
                                        /\ req'[s].identity = users'[v].origin
      BY <1>1 DEF Accounted
    <3>1. CASE v = u
      BY <2>1, <2>6, <3>1
    <3>2. CASE v # u
      <4>1. v \in Stored \ died /\ users'[v] = users[v]
        BY <2>1, <2>2, <3>2 DEF Stored
      <4>2. PICK s \in Reqs : /\ req[s].pc = "linknew" /\ req[s].user = v
                              /\ req[s].identity = users[v].origin
        BY <4>1 DEF IInv, Accounted
      <4> QED
        BY <1>1, <2>6, <4>1, <4>2
    <3> QED
      BY <3>1, <3>2
  <2> QED
    BY <2>6, <2>8, <2>9, <2>10, <2>11, <2>12 DEF IInv
<1> QED
  BY <1>2, <1>3 DEF CreateUser

-----------------------------------------------------------------------------
\* A user goes with links and sessions; the requests that work for the user are
\* left with a user who is not stored.
LEMMA DeleteUserInv ==
    ASSUME IInv, NEW u \in UserIds, DeleteUser(u) PROVE IInv'
<1>1. /\ users' = [users EXCEPT ![u] = [NewRow EXCEPT !.state = "gone"]]
      /\ UNCHANGED <<pending, req, linked>>
      /\ died' = died \ {u} /\ sessions' \subseteq sessions
      /\ \A s \in sessions' : s[2] # u
  BY DEF DeleteUser
<1>2. [NewRow EXCEPT !.state = "gone"] \in UserRow
      /\ [NewRow EXCEPT !.state = "gone"].state = "gone"
  BY DEF NewRow, UserRow
<1>3. /\ users' \in [UserIds -> UserRow] /\ users'[u].state = "gone"
      /\ \A v \in UserIds \ {u} : users'[v] = users[v]
  BY <1>1, <1>2 DEF IInv, TypeOK
<1>4. Stored' = Stored \ {u}
  BY <1>3 DEF Stored
<1>5. /\ links' \in [Identities -> UserIds \cup {NoUser}]
      /\ \A i \in Identities : links'[i] = IF links[i] = u THEN NoUser ELSE links[i]
  BY DEF DeleteUser, IInv, TypeOK
<1>6. TypeOK' /\ ReqShape'
  BY <1>1, <1>3, <1>5 DEF IInv, TypeOK, ReqShape
<1>7. UsersKnown'
  BY <1>1, <1>3 DEF IInv, UsersKnown, ReqShape
<1>8. LinksStored'
  BY <1>1, <1>4, <1>5 DEF IInv, LinksStored
<1>9. IssueLinked'
  BY <1>1, <1>4, <1>5 DEF IInv, IssueLinked, ReqShape
<1>10. SessionsLinked'
  <2> SUFFICES ASSUME NEW s \in sessions' PROVE links'[s[1]] = s[2]
    BY DEF SessionsLinked
  <2>1. s[1] \in Identities /\ links[s[1]] = s[2] /\ s[2] # u
    BY <1>1 DEF IInv, TypeOK, SessionsLinked
  <2> QED
    BY <1>5, <2>1
<1>11. Accounted'
  <2> SUFFICES ASSUME NEW v \in Stored' \ died'
               PROVE  \/ users'[v].origin \in linked
                      \/ \E s \in Reqs : /\ req[s].pc = "linknew" /\ req[s].user = v
                                         /\ req[s].identity = users'[v].origin
    BY <1>1 DEF Accounted
  <2>1. v \in Stored \ died /\ users'[v] = users[v]
    BY <1>1, <1>3, <1>4 DEF Stored
  <2> QED
    BY <2>1 DEF IInv, Accounted
<1> QED
  BY <1>6, <1>7, <1>8, <1>9, <1>10, <1>11 DEF IInv

\* The address of a row does not matter to the invariant.
LEMMA ChangeEmailInv ==
    ASSUME IInv, NEW u \in UserIds, NEW e \in Emails, ChangeEmail(u, e) PROVE IInv'
<1>1. users' = [users EXCEPT ![u].email = e] /\ UNCHANGED <<links, pending, req, sessions, linked, died>>
  BY DEF ChangeEmail
<1>2. /\ users' \in [UserIds -> UserRow]
      /\ \A v \in UserIds : users'[v].state = users[v].state /\ users'[v].origin = users[v].origin
  BY <1>1 DEF IInv, TypeOK, UserRow
<1>3. Stored' = Stored
  BY <1>2 DEF Stored
<1>4. TypeOK' /\ ReqShape' /\ LinksStored' /\ IssueLinked' /\ SessionsLinked'
  BY <1>1, <1>2, <1>3 DEF IInv, TypeOK, ReqShape, LinksStored, IssueLinked, SessionsLinked
<1>5. UsersKnown'
  BY <1>1, <1>2 DEF IInv, UsersKnown, ReqShape
<1>6. Accounted'
  BY <1>1, <1>2, <1>3 DEF IInv, Accounted, Stored
<1> QED
  BY <1>4, <1>5, <1>6 DEF IInv

\* Nor do the pending tokens and stuttering.
LEMMA PendingInv ==
    ASSUME IInv, pending' \subseteq Identities,
           UNCHANGED <<users, links, req, sessions, linked, died>>
    PROVE  IInv'
BY DEF IInv, TypeOK, ReqShape, UsersKnown, LinksStored, IssueLinked, SessionsLinked,
       Accounted, Stored

LEMMA NextInv == IInv /\ [Next]_vars => IInv'
<1> SUFFICES ASSUME IInv, [Next]_vars PROVE IInv'
  OBVIOUS
<1>1. ASSUME NEW i \in Identities, Expire(i) PROVE IInv'
  BY <1>1, PendingInv DEF Expire, IInv, TypeOK
<1>2. CASE UNCHANGED vars
  BY <1>2, PendingInv DEF vars, IInv, TypeOK
<1>3. ASSUME NEW r \in Reqs, \/ BeginCallback(r) \/ LookupIdentity(r) \/ LookupEmail(r)
                             \/ LinkUser(r) \/ IssueTokens(r) \/ BeginComplete(r)
                             \/ CreateUser(r) \/ LinkNewUser(r) \/ Crash(r)
      PROVE  IInv'
  BY <1>3, BeginCallbackInv, LookupIdentityInv, LookupEmailInv, LinkUserInv, IssueTokensInv,
     BeginCompleteInv, CreateUserInv, LinkNewUserInv, CrashInv
<1> QED
  BY <1>1, <1>2, <1>3, DeleteUserInv, ChangeEmailInv DEF Next

\* IInv holds in every reachable state.
THEOREM Inductive == Spec => []IInv
BY InitInv, NextInv, PTL DEF Spec

\* Every variable has its type.
THEOREM TypeCorrect == Spec => []TypeOK
<1>1. IInv => TypeOK
  BY DEF IInv
<1> QED
  BY <1>1, Inductive, PTL

\* The tokens an identity holds are of the account it is linked to now, for any
\* number of overlapping callbacks, completions, deletions and crashes.
THEOREM SessionsAreLinked == Spec => []SessionsLinked
<1>1. IInv => SessionsLinked
  BY DEF IInv
<1> QED
  BY <1>1, Inductive, PTL

\* A user without a link whom no request works for lost a race to another
\* registration or link of the same identity, or their request died.
THEOREM LeftoversExplained == Spec => []LeftoverHasRival
<1>1. IInv => LeftoverHasRival
  BY DEF IInv, Accounted, LeftoverHasRival
<1> QED
  BY <1>1, Inductive, PTL
=============================================================================
