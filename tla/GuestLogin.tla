------------------------------ MODULE GuestLogin -----------------------------
(* Guest login: the guest of an IP address is looked up or created, touched,  *)
(* and given a refresh token.  Creation, touch and token are one transaction: *)
(* what a request has written is seen by others only after its commit, and    *)
(* others wait for the rows and unique names it holds.  An administrator's    *)
(* POST /users stores rows with an address too, and the look-up by address    *)
(* finds those as well, whoever they belong to.                               *)
EXTENDS Naturals, FiniteSets

CONSTANTS Ips, Names,
          GuestIds,  \* identifiers a new user can get
          Reqs,      \* request slots of the server
          NoIp, NoName, NoGuest

ASSUME ConstantsAssumption ==
    /\ NoIp \notin Ips
    /\ NoName \notin Names
    /\ NoGuest \notin GuestIds

VARIABLES guests,   \* the rows of the users table
          tokened,  \* users with a row in refresh_tokens
          req,      \* the requests in progress
          prior     \* history: the rows stored when a guest's request looked its IP up

vars == <<guests, tokened, req, prior>>

-----------------------------------------------------------------------------
GuestRow == [state : {"unused", "pending", "stored", "gone"},
             ip : Ips \cup {NoIp}, name : Names \cup {NoName}, is_active : BOOLEAN,
             by : {"login", "admin"}]   \* who made it: a guest login or POST /users

Request == [pc : {"idle", "lookup", "create", "touch", "issue"},
            ip : Ips \cup {NoIp}, name : Names \cup {NoName},
            guest : GuestIds \cup {NoGuest},
            before : SUBSET GuestIds]   \* history: the rows stored at the look-up

Blank == [state |-> "unused", ip |-> NoIp, name |-> NoName, is_active |-> TRUE,
          by |-> "login"]

Idle == [pc |-> "idle", ip |-> NoIp, name |-> NoName, guest |-> NoGuest, before |-> {}]

TypeOK ==
    /\ guests \in [GuestIds -> GuestRow]
    /\ tokened \subseteq GuestIds
    /\ req \in [Reqs -> Request]
    /\ prior \in [GuestIds -> SUBSET GuestIds]

-----------------------------------------------------------------------------
Stored == {g \in GuestIds : guests[g].state = "stored"}

OfIp(ip) == {g \in Stored : guests[g].ip = ip}

\* A transaction other than r's has updated the row and not committed.
Locked(g) == \E r \in Reqs : req[r].pc = "issue" /\ req[r].guest = g

\* A name inserted by a transaction that is not committed.
Inserting(n) == \E g \in GuestIds : guests[g].state = "pending" /\ guests[g].name = n

\* A row of POST /users may be a registered user's: self-disabling and bans count
\* against it, and are asked for at the look-up and again before the token.
MayRefuse(g) == guests[g].by = "admin"

Goto(r, q, pc) ==
    req' = [req EXCEPT ![r] = IF pc = "idle" THEN Idle ELSE [q EXCEPT !.pc = pc]]

\* The rows after r's transaction is rolled back.
RolledBack(r) ==
    IF req[r].guest # NoGuest /\ guests[req[r].guest].state = "pending"
    THEN [guests EXCEPT ![req[r].guest] = Blank] ELSE guests

Init ==
    /\ guests = [g \in GuestIds |-> Blank]
    /\ tokened = {}
    /\ req = [r \in Reqs |-> Idle]
    /\ prior = [g \in GuestIds |-> {}]

-----------------------------------------------------------------------------
(* login_as_guest.                                                            *)

\* POST /guest-login.
Begin(r) ==
    /\ req[r].pc = "idle"
    /\ \E ip \in Ips : Goto(r, [Idle EXCEPT !.ip = ip], "lookup")
    /\ UNCHANGED <<guests, tokened, prior>>

\* A mutant: any failure of the look-up means that there is no guest.
LookupAnyFailure(r) ==
    LET found == OfIp(req[r].ip)
        q     == req[r]
    IN  /\ req[r].pc = "lookup"
        /\ \/ /\ Cardinality(found) = 1
              /\ \E g \in found :
                    IF guests[g].is_active THEN Goto(r, [q EXCEPT !.guest = g], "touch")
                    ELSE \E n \in Names :
                           Goto(r, [q EXCEPT !.name = n, !.before = Stored], "create")
           \/ /\ Cardinality(found) # 1
              /\ \E n \in Names : Goto(r, [q EXCEPT !.name = n, !.before = Stored], "create")
        /\ UNCHANGED <<guests, tokened, prior>>

\* get_guest_by_ip.  Two rows for the address are an error that is not handled.
\* A row found has its status validated on this copy; for a new guest a name is
\* drawn.
Lookup(r) ==
    LET found == OfIp(req[r].ip)
        q     == req[r]
    IN  /\ req[r].pc = "lookup"
        /\ \/ /\ Cardinality(found) = 1
              /\ \E g \in found :
                    \/ /\ guests[g].is_active
                       /\ Goto(r, [q EXCEPT !.guest = g], "touch")
                    \/ /\ ~guests[g].is_active \/ MayRefuse(g)
                       /\ Goto(r, q, "idle")
           \/ /\ Cardinality(found) > 1
              /\ Goto(r, q, "idle")
           \/ /\ found = {}
              /\ \E n \in Names : Goto(r, [q EXCEPT !.name = n, !.before = Stored], "create")
        /\ UNCHANGED <<guests, tokened, prior>>

\* A mutant: the guest is committed at once (create_and_commit).
CreateCommitted(r) ==
    LET q == req[r]
    IN  /\ q.pc = "create"
        /\ ~Inserting(q.name)
        /\ \/ /\ \E g \in Stored : guests[g].name = q.name
              /\ Goto(r, q, "idle")
              /\ UNCHANGED <<guests, prior>>
           \/ /\ \A g \in Stored : guests[g].name # q.name
              /\ \E g \in GuestIds :
                    /\ guests[g].state = "unused"
                    /\ guests' = [guests EXCEPT ![g] =
                         [state |-> "stored", ip |-> q.ip, name |-> q.name,
                          is_active |-> TRUE, by |-> "login"]]
                    /\ prior' = [prior EXCEPT ![g] = q.before]
                    /\ Goto(r, [q EXCEPT !.guest = g], "touch")
        /\ UNCHANGED tokened

\* create: an INSERT that is flushed.  It waits for a transaction inserting the
\* same name; a name that is taken is refused.  Bound: an identifier is left,
\* or else the request ends.
Create(r) ==
    LET q    == req[r]
        free == {g \in GuestIds : guests[g].state = "unused"}
    IN  /\ q.pc = "create"
        /\ ~Inserting(q.name)
        /\ \/ /\ free = {} \/ \E g \in Stored : guests[g].name = q.name
              /\ Goto(r, q, "idle")
              /\ UNCHANGED <<guests, prior>>
           \/ /\ \A g \in Stored : guests[g].name # q.name
              /\ \E g \in free :
                    /\ guests' = [guests EXCEPT ![g] =
                         [state |-> "pending", ip |-> q.ip, name |-> q.name,
                          is_active |-> TRUE, by |-> "login"]]
                    /\ prior' = [prior EXCEPT ![g] = q.before]
                    /\ Goto(r, [q EXCEPT !.guest = g], "touch")
        /\ UNCHANGED tokened

\* updated_at is flushed, for a new guest too: the row is locked from here to
\* the commit.  A row that was deleted in the meantime is an error.
Touch(r) ==
    LET g == req[r].guest
    IN  /\ req[r].pc = "touch"
        /\ ~Locked(g)
        /\ Goto(r, req[r], IF guests[g].state \in {"pending", "stored"} THEN "issue"
                                                                         ELSE "idle")
        /\ UNCHANGED <<guests, tokened, prior>>

\* A mutant: the response is sent without a commit.
IssueUncommitted(r) ==
    /\ req[r].pc = "issue"
    /\ tokened' = tokened \cup {req[r].guest}
    /\ Goto(r, req[r], "idle")
    /\ UNCHANGED <<guests, prior>>

\* A mutant: the token is stored without its user.
IssueUnowned(r) ==
    LET g == req[r].guest
    IN  /\ req[r].pc = "issue"
        /\ guests' = [guests EXCEPT ![g].state = "stored"]
        /\ tokened' = tokened \cup {NoGuest}
        /\ Goto(r, req[r], "idle")
        /\ UNCHANGED prior

\* get_access_token validates the user again; then _create_refresh_token: the
\* token is inserted and everything is committed.
Issue(r) ==
    LET g == req[r].guest
    IN  /\ req[r].pc = "issue"
        /\ \/ /\ guests' = [guests EXCEPT ![g].state = "stored"]
              /\ tokened' = tokened \cup {g}
           \/ /\ MayRefuse(g)
              /\ UNCHANGED <<guests, tokened>>
        /\ Goto(r, req[r], "idle")
        /\ UNCHANGED prior

-----------------------------------------------------------------------------
(* The rest of the system.                                                    *)

\* A request dies; its transaction is rolled back.
Crash(r) ==
    /\ req[r].pc # "idle"
    /\ guests' = RolledBack(r)
    /\ Goto(r, req[r], "idle")
    /\ UNCHANGED <<tokened, prior>>

\* POST /users: an administrator's row, of a guest or a registered user, with
\* any address or none.  It waits for a name being inserted, and is committed
\* at once without a token.
CreateUser(g) ==
    /\ guests[g].state = "unused"
    /\ \E ip \in Ips \cup {NoIp}, n \in Names :
          /\ ~Inserting(n) /\ \A h \in Stored : guests[h].name # n
          /\ guests' = [guests EXCEPT ![g] =
                [state |-> "stored", ip |-> ip, name |-> n, is_active |-> TRUE,
                 by |-> "admin"]]
    /\ prior' = [prior EXCEPT ![g] = {}]
    /\ UNCHANGED <<tokened, req>>

\* An administrator changes is_active of a user.
SetActive(g) ==
    /\ g \in Stored /\ ~Locked(g)
    /\ guests' = [guests EXCEPT ![g].is_active = ~@]
    /\ UNCHANGED <<tokened, req, prior>>

\* The clean-up or an administrator deletes a user, tokens included.
DeleteGuest(g) ==
    /\ g \in Stored /\ ~Locked(g)
    /\ guests' = [guests EXCEPT ![g] = [Blank EXCEPT !.state = "gone"]]
    /\ tokened' = tokened \ {g}
    /\ prior' = [h \in GuestIds |-> IF h = g THEN {} ELSE prior[h] \ {g}]
    /\ UNCHANGED req

-----------------------------------------------------------------------------
Step(r) == Lookup(r) \/ Create(r) \/ Touch(r) \/ Issue(r)

Next ==
    \/ \E r \in Reqs : Begin(r)
    \/ \E r \in Reqs : Lookup(r)
    \/ \E r \in Reqs : Create(r)
    \/ \E r \in Reqs : Touch(r)
    \/ \E r \in Reqs : Issue(r)
    \/ \E r \in Reqs : Crash(r)
    \/ \E g \in GuestIds : CreateUser(g)
    \/ \E g \in GuestIds : SetActive(g)
    \/ \E g \in GuestIds : DeleteGuest(g)

Spec == Init /\ [][Next]_vars

\* The event loop resumes a request, and PostgreSQL serves those who wait for a
\* lock in their order: a request that can go on again and again does.
FairSpec == Spec /\ \A r \in Reqs : SF_vars(Step(r))

-----------------------------------------------------------------------------
(* Properties.                                                                *)

\* A guest that a login made exists only together with the token that was issued
\* to it: no crash, refusal or deletion leaves a guest that nobody can be.
GuestBornWithToken == \A g \in Stored : guests[g].by = "login" => g \in tokened

\* A login does not make a second guest for an address that had a row when it
\* looked: of two rows of an address, one made by a login, the other came after
\* that login's look-up (an overlapping login's, or a later POST /users').
TwinsOverlapped ==
    \A g, h \in Stored :
        g # h /\ guests[h].by = "login" /\ guests[g].ip = guests[h].ip => g \notin prior[h]

\* Requests that wait for each other's rows and names never wait for ever.
LoginEnds == \A r \in Reqs : (req[r].pc # "idle") ~> (req[r].pc = "idle")
=============================================================================
