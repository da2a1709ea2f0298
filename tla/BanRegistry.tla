----------------------------- MODULE BanRegistry ----------------------------
(* Bans, the moderators who impose and lift them, and the deletion of users   *)
(* that bans refer to.  Creating a ban and deleting a user take several       *)
(* statements, lifting a ban takes one (update_by_attribute).                 *)
EXTENDS Integers, FiniteSets

CONSTANTS Users,      \* moderators are users too
          Bans,       \* identifiers a new ban can get
          Reqs,       \* request slots of the server
          Creators,   \* the slots that serve ban creations
          NoUser, NoBan, Deleted, Never,
          MaxClock    \* bound on the clock

ASSUME ConstantsAssumption ==
    /\ Creators \subseteq Reqs
    /\ NoUser \notin Users
    /\ NoBan \notin Bans
    /\ Deleted \notin Bans \cup {NoBan}
    /\ Never \notin Nat
    /\ MaxClock \in Nat

VARIABLES here,   \* the ids in the users table
          bans,   \* the bans table
          clock,
          req     \* the requests in progress

vars == <<here, bans, clock, req>>

-----------------------------------------------------------------------------
(* Types.                                                                     *)

BanRow == [state : {"unused", "stored", "gone"},
           user : Users \cup {NoUser}, banned_by : Users \cup {NoUser},
           deactivated_by : Users \cup {NoUser},
           is_currently_active : BOOLEAN, expires_at : Nat \cup {Never}]

Pcs == {"idle", "check", "query", "insert", "load", "flush"}

Request == [pc : Pcs,
            user : Users \cup {NoUser}, admin : Users \cup {NoUser},
            expires : Nat \cup {Never},
            issued : SUBSET Bans]      \* bans_issued, as session.delete loads it

Idle == [pc |-> "idle", user |-> NoUser, admin |-> NoUser, expires |-> Never,
         issued |-> {}]

TypeOK ==
    /\ here \subseteq Users
    /\ bans \in [Bans -> BanRow]
    /\ clock \in Nat
    /\ req \in [Reqs -> Request]

-----------------------------------------------------------------------------
Stored == {b \in Bans : bans[b].state = "stored"}

\* A ban get_active_ban_by_user_id selects.
IsActive(ban) ==
    /\ ban.state = "stored"
    /\ ban.is_currently_active
    /\ ban.expires_at = Never \/ ban.expires_at > clock

ActiveBans(u) == {b \in Bans : IsActive(bans[b]) /\ bans[b].user = u}

Goto(r, q, pc) ==
    req' = [req EXCEPT ![r] = IF pc = "idle" THEN Idle ELSE [q EXCEPT !.pc = pc]]

Init ==
    /\ here = Users
    /\ bans = [b \in Bans |->
                 [state |-> "unused", user |-> NoUser, banned_by |-> NoUser,
                  deactivated_by |-> NoUser, is_currently_active |-> FALSE,
                  expires_at |-> Never]]
    /\ clock = 0
    /\ req = [r \in Reqs |-> Idle]

-----------------------------------------------------------------------------
(* create_ban.                                                                *)

\* A mutant: the date asked for is read in a time zone behind the server's.
BeginCreateLocalTime(r) ==
    /\ r \in Creators
    /\ req[r].pc = "idle"
    /\ \E u, admin \in Users, e \in 0..MaxClock :
          Goto(r, [Idle EXCEPT !.user = u, !.admin = admin, !.expires = e - 1], "check")
    /\ UNCHANGED <<here, bans, clock>>

\* A moderator, whose access token may outlive their account, asks for a ban;
\* expires_at is not checked against the clock.
BeginCreate(r) ==
    /\ r \in Creators
    /\ req[r].pc = "idle"
    /\ \E u, admin \in Users, e \in 0..MaxClock \cup {Never} :
          Goto(r, [Idle EXCEPT !.user = u, !.admin = admin, !.expires = e], "check")
    /\ UNCHANGED <<here, bans, clock>>

\* The user to ban must exist.
CheckUser(r) ==
    /\ req[r].pc = "check"
    /\ Goto(r, req[r], IF req[r].user \in here THEN "query" ELSE "idle")
    /\ UNCHANGED <<here, bans, clock>>

\* A mutant: no query for an active ban.
QueryActiveMissing(r) ==
    /\ req[r].pc = "query"
    /\ Goto(r, req[r], "insert")
    /\ UNCHANGED <<here, bans, clock>>

\* The user must have no active ban now.
QueryActive(r) ==
    /\ req[r].pc = "query"
    /\ Goto(r, req[r], IF ActiveBans(req[r].user) = {} THEN "insert" ELSE "idle")
    /\ UNCHANGED <<here, bans, clock>>

\* A mutant: the row is stored for users who are gone as well.
InsertBanUnchecked(r) ==
    LET q == req[r]
    IN  /\ q.pc = "insert"
        /\ \E b \in {c \in Bans : bans[c].state = "unused"} :
             bans' = [bans EXCEPT ![b] =
                [state |-> "stored", user |-> q.user, banned_by |-> q.admin,
                 deactivated_by |-> NoUser, is_currently_active |-> TRUE,
                 expires_at |-> q.expires]]
        /\ Goto(r, q, "idle")
        /\ UNCHANGED <<here, clock>>

\* INSERT and COMMIT; the foreign keys refuse a user or moderator who is gone.
\* Bound: a ban identifier is left.
InsertBan(r) ==
    LET q == req[r]
    IN  /\ q.pc = "insert"
        /\ IF {q.user, q.admin} \subseteq here
           THEN \E b \in {c \in Bans : bans[c].state = "unused"} :
                  bans' = [bans EXCEPT ![b] =
                     [state |-> "stored", user |-> q.user, banned_by |-> q.admin,
                      deactivated_by |-> NoUser, is_currently_active |-> TRUE,
                      expires_at |-> q.expires]]
           ELSE UNCHANGED bans
        /\ Goto(r, q, "idle")
        /\ UNCHANGED <<here, clock>>

-----------------------------------------------------------------------------
\* A mutant: lifting a ban that is lifted already brings it back.
DeactivateToggle(b, admin) ==
    /\ bans[b].state = "stored"
    /\ admin \in here
    /\ bans' = [bans EXCEPT ![b].is_currently_active = ~@,
                            ![b].deactivated_by = admin]
    /\ UNCHANGED <<here, clock, req>>

\* deactivate_ban, of any stored ban, lifted or expired before as well; the
\* foreign key refuses a moderator who is gone.
Deactivate(b, admin) ==
    /\ bans[b].state = "stored"
    /\ admin \in here
    /\ bans' = [bans EXCEPT ![b].is_currently_active = FALSE,
                            ![b].deactivated_by = admin]
    /\ UNCHANGED <<here, clock, req>>

-----------------------------------------------------------------------------
(* DatabaseRepository.delete of a user.                                       *)

BeginDelete(r) ==
    /\ req[r].pc = "idle"
    /\ \E u \in here : Goto(r, [Idle EXCEPT !.user = u], "load")
    /\ UNCHANGED <<here, bans, clock>>

\* get_by_attribute, then session.delete loads the user's relationships.
LoadChildren(r) ==
    LET u == req[r].user
    IN  /\ req[r].pc = "load"
        /\ Goto(r, [req[r] EXCEPT !.issued = {b \in Stored : bans[b].banned_by = u}],
                IF u \in here THEN "flush" ELSE "idle")
        /\ UNCHANGED <<here, bans, clock>>

\* A mutant: only the bans loaded as issued are considered.
CanDeleteLoadedOnly(q) == q.issued \subseteq Stored

\* The flush sets banned_by to NULL in the bans it loaded and deletes the user
\* with the bans received.  It is refused when a loaded ban has disappeared, or
\* when a ban of somebody else still refers to the user: one issued since the
\* load, or one the user lifted (deactivated_by has no relationship).
CanDelete(q) ==
    /\ q.issued \subseteq Stored
    /\ \A b \in Stored : bans[b].user # q.user =>
          /\ bans[b].banned_by = q.user => b \in q.issued
          /\ bans[b].deactivated_by # q.user

FlushDelete(r) ==
    LET q == req[r]
    IN  /\ q.pc = "flush"
        /\ IF q.user \in here /\ CanDelete(q)
           THEN /\ here' = here \ {q.user}
                /\ bans' = [b \in Bans |->
                     IF bans[b].state = "stored" /\ bans[b].user = q.user
                     THEN [bans[b] EXCEPT !.state = "gone"]
                     ELSE IF b \in q.issued THEN [bans[b] EXCEPT !.banned_by = NoUser]
                     ELSE bans[b]]
           ELSE UNCHANGED <<here, bans>>
        /\ Goto(r, q, "idle")
        /\ UNCHANGED clock

-----------------------------------------------------------------------------
Tick ==
    /\ clock < MaxClock
    /\ clock' = clock + 1
    /\ UNCHANGED <<here, bans, req>>

\* A request dies; its transaction is rolled back.
Crash(r) ==
    /\ req[r].pc # "idle"
    /\ Goto(r, req[r], "idle")
    /\ UNCHANGED <<here, bans, clock>>

Next ==
    \/ \E r \in Reqs : BeginCreate(r)
    \/ \E r \in Reqs : CheckUser(r)
    \/ \E r \in Reqs : QueryActive(r)
    \/ \E r \in Reqs : InsertBan(r)
    \/ \E b \in Bans, admin \in Users : Deactivate(b, admin)
    \/ \E r \in Reqs : BeginDelete(r)
    \/ \E r \in Reqs : LoadChildren(r)
    \/ \E r \in Reqs : FlushDelete(r)
    \/ \E r \in Reqs : Crash(r)
    \/ Tick

Spec == Init /\ [][Next]_vars

-----------------------------------------------------------------------------
(* Properties.                                                                *)

\* A ban refers only to users who exist: no deletion that races a ban, a lift
\* or another deletion leaves a dangling moderator or a ban without its user.
ReferencesExist ==
    \A b \in Stored :
        /\ bans[b].user \in here
        /\ {bans[b].banned_by, bans[b].deactivated_by} \subseteq here \cup {NoUser}

\* The moderators' view of the registry.
Current == [u \in Users |->
              IF u \notin here THEN Deleted
              ELSE IF ActiveBans(u) = {} THEN NoBan
              ELSE CHOOSE b \in ActiveBans(u) : TRUE]

Used == {b \in Bans : bans[b].state # "unused"}

Ledger == INSTANCE BanLedger WITH current <- Current, used <- Used

\* With at most one creation in progress at a time the registry is a ledger of
\* one ban per user, whatever lifts, expiries and deletions come in between.
LedgerRefined == Ledger!Spec

\* users/repository.py, get_active_ban_by_user_id: several active bans of one
\* user "should ideally not happen".
OneActiveBan == \A u \in Users : Cardinality(ActiveBans(u)) <= 1
=============================================================================
