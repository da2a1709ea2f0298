----------------------------- MODULE UserUpdates -----------------------------
(* PATCH of a user, which commits each field on its own, and the superuser    *)
(* that every server process creates or repairs when it starts.  A statement  *)
(* is a step; update_by_attribute is one, and the refresh after it another.   *)
(* A request compares and writes the copy of the row in its session.          *)
EXTENDS Naturals, FiniteSets

CONSTANTS UserIds, Names, Emails,
          RoleSets,     \* the sets of roles that are asked for
          Reqs,         \* requests and starting processes
          Patchers,     \* those of them that may be a PATCH
          NoUser, NoEmail, Absent,
          AdminName, AdminEmail, AdminRoles,   \* the superuser of the settings
          FirstUser,    \* an account that exists from the start
          MaxFields     \* bound on the fields a PATCH asks for

ASSUME ConstantsAssumption ==
    /\ NoUser \notin UserIds
    /\ NoEmail \notin Emails
    /\ Absent \notin Names \cup Emails /\ Absent \notin RoleSets /\ Absent \notin BOOLEAN
    /\ AdminName \in Names /\ AdminEmail \in Emails /\ AdminRoles \in RoleSets
    /\ FirstUser \in UserIds
    /\ MaxFields \in Nat
    /\ Patchers \subseteq Reqs

VARIABLES users,   \* the users table
          req,     \* the requests in progress
          seen     \* history: what has been true since a request began

vars == <<users, req, seen>>

-----------------------------------------------------------------------------
(* Types.                                                                     *)

UserRow == [state : {"unused", "pending", "stored", "gone"},
            username : Names \cup {Absent}, email : Emails \cup {NoEmail},
            roles : RoleSets, is_active : BOOLEAN]

Fields == {"username", "email", "roles", "is_active"}

Values == [username |-> Names, email |-> Emails, roles |-> RoleSets, is_active |-> BOOLEAN]

Asked == [username : Names \cup {Absent}, email : Emails \cup {Absent},
          roles : RoleSets \cup {Absent}, is_active : BOOLEAN \cup {Absent}]

Request == [op : {"none", "patch", "start"},
            pc : {"idle", "load", "insert", "commit", "find", "reload", "done", "failed"}
                 \cup Fields,
            user : UserIds \cup {NoUser}, asked : Asked,
            due : SUBSET Fields,     \* the fields that are still to be looked at
            differs : BOOLEAN]       \* the session's copy of field pc is not the value asked for

Marks == Fields \cup {"named", "excused"}

TypeOK ==
    /\ users \in [UserIds -> UserRow]
    /\ req \in [Reqs -> Request]
    /\ seen \in [Reqs -> SUBSET Marks]

-----------------------------------------------------------------------------
Blank == [state |-> "unused", username |-> Absent, email |-> NoEmail,
          roles |-> AdminRoles, is_active |-> TRUE]

Nothing == [f \in Fields |-> Absent]

Idle == [op |-> "none", pc |-> "idle", user |-> NoUser, asked |-> Nothing,
         due |-> Fields, differs |-> FALSE]

Stored == {u \in UserIds : users[u].state = "stored"}

Pending == {u \in UserIds : users[u].state = "pending"}

\* The rows in S, u apart, that a unique index makes clash with these values.
Clashing(S, u, name, email) ==
    {v \in S \ {u} : users[v].username = name \/ (email # NoEmail /\ users[v].email = email)}

Superusers == {u \in Stored : users[u].username = AdminName}

\* A process serves whether its start is done or has failed.
Over == {"done", "failed"}

\* A start that is over keeps nothing of what it read.
Goto(r, q, pc) ==
    req' = [req EXCEPT ![r] =
              IF pc = "idle" THEN Idle
              ELSE IF pc \in Over /\ q.op = "start" THEN [Idle EXCEPT !.op = "start", !.pc = pc]
              ELSE [q EXCEPT !.pc = pc]]

\* History: which asked values the user of a PATCH has now; for a start, which
\* of its aims a superuser meets now.
MarksOf(q) ==
    IF q.op = "patch"
    THEN {f \in Fields : q.user \in Stored /\ users[q.user][f] = q.asked[f]}
    ELSE {x \in {"named", "roles", "is_active"} : \E u \in Superusers :
             /\ x = "roles" => AdminRoles \subseteq users[u].roles
             /\ x = "is_active" => users[u].is_active}

\* The superuser's address belongs to somebody else.
AddressTaken == \E u \in Stored \ Superusers : users[u].email = AdminEmail

\* What no start can help: that, or a superuser who was there and is gone.
Excused(r) ==
    /\ req'[r].op = "start"
    /\ "excused" \in seen[r] \/ AddressTaken' \/ ("named" \in seen[r] /\ Superusers' = {})

Observe ==
    seen' = [r \in Reqs |->
               IF req'[r].pc = "idle" THEN {}
               ELSE IF Excused(r) THEN {"excused"}
               ELSE seen[r] \cup MarksOf(req[r])']

\* The first account may be the superuser of an earlier start.
Init ==
    /\ \E name \in Names, roles \in RoleSets, active \in BOOLEAN :
          users = [u \in UserIds |->
                     IF u # FirstUser THEN Blank
                     ELSE [state |-> "stored", username |-> name, email |-> NoEmail,
                           roles |-> roles, is_active |-> active]]
    /\ req = [r \in Reqs |-> Idle]
    /\ seen = [r \in Reqs |-> {}]

-----------------------------------------------------------------------------
(* update_by_attribute, field by field.                                       *)

Rank == [username |-> 1, email |-> 2, roles |-> 3, is_active |-> 4]

\* A mutant: fields that are not asked for are updated too.
IsOpenUnset(q, f) == users[q.user][f] # q.asked[f]

\* _update_user updates a field that is asked for and, roles apart, differs.
IsOpen(q, f) ==
    /\ q.asked[f] # Absent
    /\ f = "roles" \/ users[q.user][f] # q.asked[f]

\* The session has just read the row: on to the next field to update; the
\* fields before it count as done.
Proceed(r, q) ==
    LET open == {f \in q.due : IsOpen(q, f)}
    IN  \/ open = {} /\ Goto(r, [q EXCEPT !.due = {}], "done")
        \/ \E f \in open :
              /\ \A g \in open : Rank[f] <= Rank[g]
              /\ Goto(r, [q EXCEPT !.due = {g \in Fields : Rank[g] > Rank[f]},
                                   !.differs = users[q.user][f] # q.asked[f]], f)

\* An update finds its row gone or its value taken: a PATCH is refused, a start
\* expects the former, logs it and is done.
Fail(r) == Goto(r, req[r], IF req[r].op = "start" THEN "done" ELSE "idle")

\* Any other error: a PATCH ends with it; a start does too, but lifespan catches
\* it, logs it and serves.
Break(r) == Goto(r, req[r], IF req[r].op = "start" THEN "failed" ELSE "idle")

\* PATCH /me or /users/{user_id}.  Bound: MaxFields.
BeginPatch(r) ==
    /\ r \in Patchers
    /\ req[r].pc = "idle"
    /\ \E u \in Stored,
          asked \in {a \in Asked : Cardinality({f \in Fields : a[f] # Absent}) <= MaxFields} :
          Goto(r, [Idle EXCEPT !.op = "patch", !.user = u, !.asked = asked], "load")
    /\ UNCHANGED users
    /\ Observe

\* The dependency loads the user.
Load(r) ==
    LET u == req[r].user
    IN  /\ req[r].pc = "load"
        /\ \/ u \in Stored /\ Proceed(r, req[r])
           \/ u \notin Stored /\ Goto(r, req[r], "idle")
        /\ UNCHANGED users
        /\ Observe

\* The other rows that hold the value a request is about to write.
Holding(S, q, f) ==
    {v \in S \ {q.user} : f \in {"username", "email"} /\ users[v][f] = q.asked[f]}

\* A mutant: a conflict with another row is ignored.
WriteConflictIgnored(r) ==
    LET q == req[r]
        f == q.pc
    IN  /\ f \in Fields
        /\ Holding(Pending, q, f) = {}
        /\ \/ q.user \notin Stored /\ Fail(r) /\ UNCHANGED users
           \/ /\ q.user \in Stored
              /\ Goto(r, q, "reload")
              /\ users' = IF q.differs /\ Holding(Stored, q, f) = {}
                          THEN [users EXCEPT ![q.user][f] = q.asked[f]] ELSE users
        /\ Observe

\* SELECT FOR UPDATE, UPDATE, COMMIT.  It waits for an uncommitted row with the
\* same value, and sends no UPDATE when the copy holds the value already.
Write(r) ==
    LET q == req[r]
        f == q.pc
    IN  /\ f \in Fields
        /\ Holding(Pending, q, f) = {}
        /\ \/ q.user \notin Stored /\ Fail(r) /\ UNCHANGED users
           \/ /\ q.user \in Stored /\ Holding(Stored, q, f) # {}
              /\ Fail(r) /\ UNCHANGED users
           \/ /\ q.user \in Stored /\ Holding(Stored, q, f) = {}
              /\ Goto(r, q, "reload")
              /\ users' = IF q.differs THEN [users EXCEPT ![q.user][f] = q.asked[f]]
                                       ELSE users
        /\ Observe

\* The refresh of the copy, which the next comparisons use.  A row that is gone
\* is an error of the database.
Reload(r) ==
    LET u == req[r].user
    IN  /\ req[r].pc = "reload"
        /\ \/ u \in Stored /\ Proceed(r, [req[r] EXCEPT !.differs = FALSE])
           \/ u \notin Stored /\ Break(r)
        /\ UNCHANGED users
        /\ Observe

-----------------------------------------------------------------------------
(* create_superuser.                                                          *)

BeginStart(r) ==
    /\ req[r].pc = "idle"
    /\ Goto(r, [Idle EXCEPT !.op = "start"], "insert")
    /\ UNCHANGED users
    /\ Observe

\* The INSERT is flushed; it waits for an uncommitted row with the same name or
\* address.  Bound: an id is left.
Insert(r) ==
    /\ req[r].pc = "insert"
    /\ Clashing(Pending, NoUser, AdminName, AdminEmail) = {}
    /\ \/ /\ Clashing(Stored, NoUser, AdminName, AdminEmail) # {}
          /\ Goto(r, req[r], "find")
          /\ UNCHANGED users
       \/ /\ Clashing(Stored, NoUser, AdminName, AdminEmail) = {}
          /\ \E u \in {v \in UserIds : users[v].state = "unused"} :
                /\ users' = [users EXCEPT ![u] =
                     [state |-> "pending", username |-> AdminName, email |-> AdminEmail,
                      roles |-> AdminRoles, is_active |-> TRUE]]
                /\ Goto(r, [req[r] EXCEPT !.user = u], "commit")
    /\ Observe

\* The commit, and a refresh that may fail.
Commit(r) ==
    /\ req[r].pc = "commit"
    /\ users' = [users EXCEPT ![req[r].user].state = "stored"]
    /\ \E pc \in Over : Goto(r, req[r], pc)
    /\ Observe

\* A mutant: one of the roles is enough.
FindOverlap(r) ==
    /\ req[r].pc = "find"
    /\ \/ Superusers = {} /\ Goto(r, req[r], "done")
       \/ \E u \in Superusers :
             Proceed(r, [req[r] EXCEPT !.user = u,
                !.due = {"roles", "is_active"},
                !.asked = [Nothing EXCEPT !.is_active = TRUE,
                             !.roles = IF AdminRoles \cap users[u].roles # {}
                                       THEN Absent ELSE AdminRoles]])
    /\ UNCHANGED users
    /\ Observe

\* The row with the superuser's name, if there is one, gets the roles unless it
\* has them, and is activated unless it is active.
Find(r) ==
    /\ req[r].pc = "find"
    /\ \/ Superusers = {} /\ Goto(r, req[r], "done")
       \/ \E u \in Superusers :
             Proceed(r, [req[r] EXCEPT !.user = u,
                !.due = {"roles", "is_active"},
                !.asked = [Nothing EXCEPT !.is_active = TRUE,
                             !.roles = IF AdminRoles \subseteq users[u].roles
                                       THEN Absent ELSE AdminRoles]])
    /\ UNCHANGED users
    /\ Observe

-----------------------------------------------------------------------------
(* The rest of the system.                                                    *)

\* The request is answered, or the process serves.
Return(r) ==
    /\ req[r].pc \in Over
    /\ Goto(r, req[r], "idle")
    /\ UNCHANGED users
    /\ Observe

\* The rows after r's transaction is rolled back.
RolledBack(r) ==
    IF req[r].pc = "commit" THEN [users EXCEPT ![req[r].user] = Blank] ELSE users

\* A request or a process dies.
Crash(r) ==
    /\ req[r].pc \notin {"idle"} \cup Over
    /\ users' = RolledBack(r)
    /\ Goto(r, req[r], "idle")
    /\ Observe

\* A statement of a request or of create_superuser fails.
Fault(r) ==
    /\ req[r].pc \notin {"idle"} \cup Over
    /\ users' = RolledBack(r)
    /\ Break(r)
    /\ Observe

\* create_user; a conflict is refused.  Bound: an id is left.
CreateUser(u, name, email, roles) ==
    /\ users[u].state = "unused"
    /\ Clashing(Pending \cup Stored, NoUser, name, email) = {}
    /\ users' = [users EXCEPT ![u] =
         [state |-> "stored", username |-> name, email |-> email,
          roles |-> roles, is_active |-> TRUE]]
    /\ UNCHANGED req
    /\ Observe

\* One field of another PATCH is written.
Edit(u, f, value) ==
    /\ u \in Stored /\ users[u][f] # value
    /\ f \in {"username", "email"} =>
          \A v \in (Pending \cup Stored) \ {u} : users[v][f] # value
    /\ users' = [users EXCEPT ![u][f] = value]
    /\ UNCHANGED req
    /\ Observe

DeleteUser(u) ==
    /\ u \in Stored
    /\ users' = [users EXCEPT ![u] = [Blank EXCEPT !.state = "gone"]]
    /\ UNCHANGED req
    /\ Observe

Next ==
    \/ \E r \in Reqs : BeginPatch(r)
    \/ \E r \in Reqs : Load(r)
    \/ \E r \in Reqs : Write(r)
    \/ \E r \in Reqs : Reload(r)
    \/ \E r \in Reqs : BeginStart(r)
    \/ \E r \in Reqs : Insert(r)
    \/ \E r \in Reqs : Commit(r)
    \/ \E r \in Reqs : Find(r)
    \/ \E r \in Reqs : Return(r)
    \/ \E r \in Reqs : Crash(r)
    \/ \E r \in Reqs : Fault(r)
    \/ \E u \in UserIds, name \in Names, email \in Emails \cup {NoEmail}, roles \in RoleSets :
          CreateUser(u, name, email, roles)
    \/ \E u \in UserIds, f \in Fields : \E value \in Values[f] : Edit(u, f, value)
    \/ \E u \in UserIds : DeleteUser(u)

Spec == Init /\ [][Next]_vars

-----------------------------------------------------------------------------
(* Properties.                                                                *)

\* Whenever a PATCH has passed a field, the user had the asked value at some
\* moment since the request began, although fields that equal the request's old
\* copy are skipped or not sent: a PATCH answered with success did all it was
\* asked, one that is refused or dies half-way a prefix.
PatchPrefix ==
    \A r \in Reqs : req[r].op = "patch" =>
        \A f \in Fields \ (req[r].due \cup {req[r].pc}) :
            req[r].asked[f] # Absent => f \in seen[r]

\* When create_superuser returns, there has been a superuser with the roles, and an
\* active one, while it ran, whatever other processes and requests do and whatever
\* a start that failed has left half-done, unless the superuser was deleted or
\* renamed meanwhile or another account has the address.  (A process whose
\* create_superuser raises serves without that.)
StartEstablishes ==
    \A r \in Reqs : req[r].op = "start" /\ req[r].pc = "done" =>
        {"roles", "is_active"} \subseteq seen[r] \/ "excused" \in seen[r]
=============================================================================
