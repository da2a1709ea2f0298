-------------------------- MODULE BanRegistryProofs -------------------------
(* Safety of BanRegistry for every set of users, bans and requests; and, when *)
(* at most one slot serves ban creations, that a user is never under two bans *)
(* and that BanRegistry implements BanLedger.                                 *)
EXTENDS BanRegistry, FiniteSetTheorems, TLAPS

\* What the program counter of a request says about its data.
ReqShape ==
    \A r \in Reqs :
        /\ req[r].pc # "idle" => req[r].user \in Users
        /\ req[r].pc \in {"check", "query", "insert"} => r \in Creators /\ req[r].admin \in Users

IInv == TypeOK /\ ReqShape /\ ReferencesExist

-----------------------------------------------------------------------------
\* A request goes on with well-typed data, and only that request moves.
LEMMA GotoType ==
    ASSUME TypeOK, NEW r \in Reqs, NEW q \in Request,
           NEW pc \in Pcs, Goto(r, q, pc)
    PROVE  /\ req' \in [Reqs -> Request]
           /\ req'[r] = IF pc = "idle" THEN Idle ELSE [q EXCEPT !.pc = pc]
           /\ \A s \in Reqs \ {r} : req'[s] = req[s]
<1>1. Idle \in Request
  BY DEF Idle, Request, Pcs
<1>2. [q EXCEPT !.pc = pc] \in Request
  BY DEF Request
<1> QED
  BY <1>1, <1>2 DEF Goto, TypeOK

\* A request keeps its shape when it goes on with the same data.
LEMMA GotoShape ==
    ASSUME TypeOK, ReqShape, NEW r \in Reqs, NEW q \in Request,
           NEW pc \in Pcs, Goto(r, q, pc),
           pc # "idle" => q.user \in Users,
           pc \in {"check", "query", "insert"} => r \in Creators /\ q.admin \in Users
    PROVE  ReqShape'
<1>1. /\ req'[r] = IF pc = "idle" THEN Idle ELSE [q EXCEPT !.pc = pc]
      /\ \A s \in Reqs \ {r} : req'[s] = req[s]
  BY GotoType
<1>2. ASSUME pc # "idle" PROVE req'[r].pc = pc /\ req'[r].user = q.user /\ req'[r].admin = q.admin
  BY <1>1, <1>2 DEF Request
<1>3. ASSUME pc = "idle" PROVE req'[r].pc = "idle"
  BY <1>1, <1>3 DEF Idle
<1> QED
  BY <1>1, <1>2, <1>3 DEF ReqShape

LEMMA InitInv == Init => IInv
<1> SUFFICES ASSUME Init PROVE IInv
  OBVIOUS
<1> DEFINE row == [state |-> "unused", user |-> NoUser, banned_by |-> NoUser,
                   deactivated_by |-> NoUser, is_currently_active |-> FALSE,
                   expires_at |-> Never]
<1>1. row \in BanRow
  BY DEF BanRow
<1>2. Idle \in Request /\ Idle.pc = "idle"
  BY DEF Idle, Request, Pcs
<1>3. bans = [b \in Bans |-> row] /\ row.state = "unused"
  BY DEF Init
<1> HIDE DEF row
<1>4. TypeOK
  <2>1. here \subseteq Users /\ clock \in Nat
    BY DEF Init
  <2>2. bans \in [Bans -> BanRow]
    BY <1>1, <1>3
  <2>3. req \in [Reqs -> Request]
    BY <1>2 DEF Init
  <2> QED
    BY <2>1, <2>2, <2>3 DEF TypeOK
<1>5. ReqShape
  BY <1>2 DEF Init, ReqShape
<1>6. ReferencesExist
  BY <1>3 DEF ReferencesExist, Stored
<1> QED
  BY <1>4, <1>5, <1>6 DEF IInv

-----------------------------------------------------------------------------
\* Steps that touch no row.
LEMMA QuietInv ==
    ASSUME IInv, NEW r \in Reqs, NEW q \in Request,
           NEW pc \in Pcs, Goto(r, q, pc),
           pc # "idle" => q.user \in Users,
           pc \in {"check", "query", "insert"} => r \in Creators /\ q.admin \in Users,
           UNCHANGED <<here, bans, clock>>
    PROVE  IInv'
<1>1. TypeOK'
  BY GotoType DEF IInv, TypeOK
<1>2. ReqShape'
  BY GotoShape DEF IInv
<1>3. ReferencesExist'
  BY DEF IInv, ReferencesExist, Stored
<1> QED
  BY <1>1, <1>2, <1>3 DEF IInv

LEMMA BeginCreateInv ==
    ASSUME IInv, NEW r \in Reqs, BeginCreate(r)
    PROVE  IInv'
<1>1. PICK u \in Users, admin \in Users, e \in (0..MaxClock) \cup {Never} :
         Goto(r, [Idle EXCEPT !.user = u, !.admin = admin, !.expires = e], "check")
  BY Zenon DEF BeginCreate
<1> DEFINE q == [Idle EXCEPT !.user = u, !.admin = admin, !.expires = e]
<1>2. Idle \in Request
  BY DEF Idle, Request, Pcs
<1>5. e \in Nat \cup {Never}
  BY ConstantsAssumption
<1>6. q \in Request /\ q.user \in Users /\ q.admin \in Users
  BY <1>2, <1>5 DEF Request
<1>3. r \in Creators /\ UNCHANGED <<here, bans, clock>>
  BY DEF BeginCreate
<1>4. Goto(r, q, "check")
  BY <1>1
<1> HIDE DEF q
<1> QED
  BY <1>3, <1>4, <1>6, QuietInv DEF Pcs

LEMMA CheckUserInv ==
    ASSUME IInv, NEW r \in Reqs, CheckUser(r)
    PROVE  IInv'
<1>1. req[r] \in Request /\ req[r].pc = "check"
  BY DEF IInv, TypeOK, CheckUser
<1>2. req[r].user \in Users /\ r \in Creators /\ req[r].admin \in Users
  BY <1>1 DEF IInv, ReqShape
<1> DEFINE pc == IF req[r].user \in here THEN "query" ELSE "idle"
<1>3. Goto(r, req[r], pc) /\ UNCHANGED <<here, bans, clock>>
  BY DEF CheckUser
<1>4. pc \in Pcs
  BY DEF Pcs
<1> HIDE DEF pc
<1> QED
  BY <1>1, <1>2, <1>3, <1>4, QuietInv

LEMMA QueryActiveInv ==
    ASSUME IInv, NEW r \in Reqs, QueryActive(r)
    PROVE  IInv'
<1>1. req[r] \in Request /\ req[r].pc = "query"
  BY DEF IInv, TypeOK, QueryActive
<1>2. req[r].user \in Users /\ r \in Creators /\ req[r].admin \in Users
  BY <1>1 DEF IInv, ReqShape
<1> DEFINE pc == IF ActiveBans(req[r].user) = {} THEN "insert" ELSE "idle"
<1>3. Goto(r, req[r], pc) /\ UNCHANGED <<here, bans, clock>>
  BY DEF QueryActive
<1>4. pc \in Pcs
  BY DEF Pcs
<1> HIDE DEF pc
<1> QED
  BY <1>1, <1>2, <1>3, <1>4, QuietInv

LEMMA BeginDeleteInv ==
    ASSUME IInv, NEW r \in Reqs, BeginDelete(r)
    PROVE  IInv'
<1>1. PICK u \in here : Goto(r, [Idle EXCEPT !.user = u], "load")
  BY Zenon DEF BeginDelete
<1> DEFINE q == [Idle EXCEPT !.user = u]
<1>2. q = [pc |-> "idle", user |-> u, admin |-> NoUser, expires |-> Never, issued |-> {}]
  BY DEF Idle
<1>4. q \in Request /\ q.user \in Users
  BY <1>2 DEF Request, Pcs, IInv, TypeOK
<1>3. UNCHANGED <<here, bans, clock>> /\ Goto(r, q, "load")
  BY <1>1 DEF BeginDelete
<1> HIDE DEF q
<1> QED
  BY <1>3, <1>4, QuietInv DEF Pcs

LEMMA LoadChildrenInv ==
    ASSUME IInv, NEW r \in Reqs, LoadChildren(r)
    PROVE  IInv'
<1> DEFINE q == [req[r] EXCEPT !.issued = {b \in Stored : bans[b].banned_by = req[r].user}]
           pc == IF req[r].user \in here THEN "flush" ELSE "idle"
<1>1. req[r] \in Request /\ req[r].pc = "load"
  BY DEF IInv, TypeOK, LoadChildren
<1>2. q \in Request /\ q.user = req[r].user /\ q.user \in Users
  <2> DEFINE S == {b \in Stored : bans[b].banned_by = req[r].user}
  <2>1. S \in SUBSET Bans
    BY DEF Stored
  <2>2. req[r].user \in Users
    BY <1>1 DEF IInv, ReqShape
  <2> HIDE DEF S
  <2>4. [req[r] EXCEPT !.issued = S] \in Request /\ [req[r] EXCEPT !.issued = S].user = req[r].user
    BY <1>1, <2>1 DEF Request
  <2>5. q = [req[r] EXCEPT !.issued = S]
    BY DEF S
  <2> HIDE DEF q
  <2> QED
    BY <2>2, <2>4, <2>5
<1>3. pc \in Pcs /\ pc \in {"flush", "idle"}
  BY DEF Pcs
<1>4. Goto(r, q, pc) /\ UNCHANGED <<here, bans, clock>>
  BY DEF LoadChildren
<1> HIDE DEF q, pc
<1> QED
  BY <1>2, <1>3, <1>4, QuietInv

LEMMA CrashInv ==
    ASSUME IInv, NEW r \in Reqs, Crash(r)
    PROVE  IInv'
<1>1. req[r] \in Request
  BY DEF IInv, TypeOK
<1>2. Goto(r, req[r], "idle") /\ UNCHANGED <<here, bans, clock>>
  BY DEF Crash
<1> QED
  BY <1>1, <1>2, QuietInv DEF Pcs

-----------------------------------------------------------------------------
\* The insertion of a ban, whose foreign keys are checked.
LEMMA InsertBanInv ==
    ASSUME IInv, NEW r \in Reqs, InsertBan(r)
    PROVE  IInv'
<1>1. req[r] \in Request /\ req[r].pc = "insert"
  BY DEF IInv, TypeOK, InsertBan
<1>2. Goto(r, req[r], "idle") /\ UNCHANGED <<here, clock>>
  BY DEF InsertBan
<1>3. ReqShape'
  BY <1>1, <1>2, GotoShape DEF IInv, Pcs
<1>4. req' \in [Reqs -> Request]
  BY <1>1, <1>2, GotoType DEF IInv, Pcs
<1>5. CASE ~({req[r].user, req[r].admin} \subseteq here)
  <2>1. UNCHANGED bans
    BY <1>5 DEF InsertBan
  <2> QED
    BY <1>2, <1>3, <1>4, <2>1 DEF IInv, TypeOK, ReferencesExist, Stored
<1>6. CASE {req[r].user, req[r].admin} \subseteq here
  <2> DEFINE row == [state |-> "stored", user |-> req[r].user, banned_by |-> req[r].admin,
                     deactivated_by |-> NoUser, is_currently_active |-> TRUE,
                     expires_at |-> req[r].expires]
  <2>1. PICK b \in Bans : bans' = [bans EXCEPT ![b] = row]
    BY <1>6, Zenon DEF InsertBan
  <2>2. row \in BanRow /\ row.user \in here /\ row.banned_by \in here /\ row.deactivated_by = NoUser
    BY <1>1, <1>6 DEF BanRow, Request, IInv, TypeOK
  <2> HIDE DEF row
  <2>3. TypeOK'
    BY <1>2, <1>4, <2>1, <2>2 DEF IInv, TypeOK
  <2>4. ReferencesExist'
    BY <1>2, <2>1, <2>2 DEF IInv, TypeOK, ReferencesExist, Stored
  <2> QED
    BY <1>3, <2>3, <2>4 DEF IInv
<1> QED
  BY <1>5, <1>6

LEMMA DeactivateInv ==
    ASSUME IInv, NEW b \in Bans, NEW admin \in Users, Deactivate(b, admin)
    PROVE  IInv'
<1> DEFINE row == [bans[b] EXCEPT !.is_currently_active = FALSE, !.deactivated_by = admin]
<1>1. bans[b] \in BanRow /\ bans[b].state = "stored" /\ admin \in here
  BY DEF IInv, TypeOK, Deactivate
<1>2. bans' = [bans EXCEPT ![b] = row] /\ UNCHANGED <<here, clock, req>>
  BY DEF Deactivate
<1>3. row \in BanRow /\ row.user = bans[b].user /\ row.banned_by = bans[b].banned_by
        /\ row.deactivated_by = admin
  BY <1>1 DEF BanRow
<1> HIDE DEF row
<1>4. TypeOK'
  BY <1>2, <1>3 DEF IInv, TypeOK
<1>5. ReqShape'
  BY <1>2 DEF IInv, ReqShape
<1>6. ReferencesExist'
  BY <1>1, <1>2, <1>3 DEF IInv, TypeOK, ReferencesExist, Stored
<1> QED
  BY <1>4, <1>5, <1>6 DEF IInv

\* The deletion of a user: the bans that stay do not refer to them.
LEMMA FlushDeleteInv ==
    ASSUME IInv, NEW r \in Reqs, FlushDelete(r)
    PROVE  IInv'
<1>1. req[r] \in Request /\ req[r].pc = "flush"
  BY DEF IInv, TypeOK, FlushDelete
<1>2. Goto(r, req[r], "idle") /\ UNCHANGED clock
  BY DEF FlushDelete
<1>3. ReqShape'
  BY <1>1, <1>2, GotoShape DEF IInv, Pcs
<1>4. req' \in [Reqs -> Request]
  BY <1>1, <1>2, GotoType DEF IInv, Pcs
<1>5. CASE ~(req[r].user \in here /\ CanDelete(req[r]))
  <2>1. UNCHANGED <<here, bans>>
    BY <1>5 DEF FlushDelete
  <2> QED
    BY <1>2, <1>3, <1>4, <2>1 DEF IInv, TypeOK, ReferencesExist, Stored
<1>6. CASE req[r].user \in here /\ CanDelete(req[r])
  <2> DEFINE u == req[r].user
             After(b) == IF bans[b].state = "stored" /\ bans[b].user = u
                         THEN [bans[b] EXCEPT !.state = "gone"]
                         ELSE IF b \in req[r].issued THEN [bans[b] EXCEPT !.banned_by = NoUser]
                         ELSE bans[b]
  <2>1. here' = here \ {u} /\ bans' = [b \in Bans |-> After(b)]
    BY <1>6 DEF FlushDelete
  <2>2. \A b \in Bans : After(b) \in BanRow
    BY DEF IInv, TypeOK, BanRow
  <2>3. ASSUME NEW b \in Bans, After(b).state = "stored"
        PROVE  /\ bans[b].state = "stored" /\ bans[b].user # u
               /\ After(b).user = bans[b].user
               /\ After(b).deactivated_by = bans[b].deactivated_by
               /\ After(b).banned_by = IF b \in req[r].issued THEN NoUser ELSE bans[b].banned_by
    <3>1. bans[b] \in BanRow
      BY DEF IInv, TypeOK
    <3>2. ~(bans[b].state = "stored" /\ bans[b].user = u)
      BY <2>3, <3>1 DEF BanRow
    <3> QED
      BY <2>3, <3>1, <3>2 DEF BanRow
  <2>4. ASSUME NEW b \in Bans, After(b).state = "stored"
        PROVE  /\ After(b).user \in here \ {u}
               /\ {After(b).banned_by, After(b).deactivated_by} \subseteq (here \ {u}) \cup {NoUser}
    <3> HIDE DEF After, u
    <3>1. b \in Stored
      BY <2>3, <2>4 DEF Stored
    <3>2. /\ bans[b].user \in here
          /\ {bans[b].banned_by, bans[b].deactivated_by} \subseteq here \cup {NoUser}
      BY <3>1 DEF IInv, ReferencesExist
    <3>3. /\ bans[b].banned_by = u => b \in req[r].issued
          /\ bans[b].deactivated_by # u
      BY <1>6, <2>3, <2>4, <3>1 DEF CanDelete, u
    <3> QED
      BY <2>3, <2>4, <3>2, <3>3
  <2> HIDE DEF After, u
  <2>5. TypeOK'
    BY <1>2, <1>4, <2>1, <2>2 DEF IInv, TypeOK
  <2>6. ReferencesExist'
    BY <2>1, <2>4 DEF ReferencesExist, Stored
  <2> QED
    BY <1>3, <2>5, <2>6 DEF IInv
<1> QED
  BY <1>5, <1>6

LEMMA TickInv ==
    ASSUME IInv, Tick
    PROVE  IInv'
BY ConstantsAssumption DEF IInv, TypeOK, ReqShape, ReferencesExist, Stored, Tick

LEMMA NextInv == IInv /\ [Next]_vars => IInv'
<1> SUFFICES ASSUME IInv, [Next]_vars PROVE IInv'
  OBVIOUS
<1>1. ASSUME NEW r \in Reqs,
             \/ BeginCreate(r) \/ CheckUser(r) \/ QueryActive(r) \/ InsertBan(r)
             \/ BeginDelete(r) \/ LoadChildren(r) \/ FlushDelete(r) \/ Crash(r)
      PROVE  IInv'
  BY <1>1, BeginCreateInv, CheckUserInv, QueryActiveInv, InsertBanInv, BeginDeleteInv,
     LoadChildrenInv, FlushDeleteInv, CrashInv
<1>2. ASSUME NEW b \in Bans, NEW admin \in Users, Deactivate(b, admin) PROVE IInv'
  BY <1>2, DeactivateInv
<1>3. ASSUME UNCHANGED vars PROVE IInv'
  BY <1>3 DEF IInv, TypeOK, ReqShape, ReferencesExist, Stored, vars
<1> QED
  BY <1>1, <1>2, <1>3, TickInv DEF Next

\* IInv holds in every reachable state.
THEOREM Invariance == Spec => []IInv
BY InitInv, NextInv, PTL DEF Spec

\* Bans refer only to users who exist, however many creations overlap.
THEOREM ReferencesSafe == Spec => []ReferencesExist
<1>1. IInv => ReferencesExist
  BY DEF IInv
<1> QED
  BY <1>1, Invariance, PTL

\* Every variable has its type.
THEOREM TypeCorrect == Spec => []TypeOK
<1>1. IInv => TypeOK
  BY DEF IInv
<1> QED
  BY <1>1, Invariance, PTL
-----------------------------------------------------------------------------
(* One creation at a time.                                                    *)


OneCreator == \A r, s \in Creators : r = s

UniqueActive == \A u \in Users : \A a, b \in ActiveBans(u) : a = b

\* The answer of the query still holds when the ban is inserted.
QueryFresh ==
    \A r \in Reqs, u \in Users :
        req[r].pc = "insert" /\ req[r].user = u => ActiveBans(u) = {}

LInv == IInv /\ UniqueActive /\ QueryFresh

-----------------------------------------------------------------------------
LEMMA ActiveFacts ==
    ASSUME NEW u \in Users, NEW b
    PROVE  b \in ActiveBans(u) <=> b \in Bans /\ IsActive(bans[b]) /\ bans[b].user = u
BY DEF ActiveBans

\* A step keeps LInv when it activates no ban and no request gets past its query.
LEMMA ShrinkInv ==
    ASSUME LInv, IInv',
           \A u \in Users : ActiveBans(u)' \subseteq ActiveBans(u),
           \A r \in Reqs : req'[r].pc = "insert" =>
               req[r].pc = "insert" /\ req'[r].user = req[r].user
    PROVE  LInv'
<1>1. UniqueActive'
  BY DEF LInv, UniqueActive
<1>2. QueryFresh'
  BY DEF LInv, QueryFresh
<1> QED
  BY <1>1, <1>2 DEF LInv

LEMMA SameActive ==
    ASSUME UNCHANGED <<bans, clock>>
    PROVE  \A u \in Users : ActiveBans(u)' = ActiveBans(u)
BY DEF ActiveBans, IsActive

\* A request that does not go to its insertion leaves the others as they were.
LEMMA GotoElsewhere ==
    ASSUME TypeOK, NEW r \in Reqs, NEW q \in Request,
           NEW pc \in Pcs \ {"insert"}, Goto(r, q, pc)
    PROVE  \A s \in Reqs : req'[s].pc = "insert" =>
               req[s].pc = "insert" /\ req'[s].user = req[s].user
<1>1. /\ req'[r] = IF pc = "idle" THEN Idle ELSE [q EXCEPT !.pc = pc]
      /\ \A s \in Reqs \ {r} : req'[s] = req[s]
  BY GotoType
<1>2. req'[r].pc # "insert"
  BY <1>1 DEF Idle, Request
<1> QED
  BY <1>1, <1>2

\* A request that starts, gives up or loads children touches no ban.
LEMMA QuietLInv ==
    ASSUME LInv, IInv', NEW r \in Reqs, NEW q \in Request,
           NEW pc \in Pcs \ {"insert"}, Goto(r, q, pc), UNCHANGED <<bans, clock>>
    PROVE  LInv'
<1>1. TypeOK
  BY DEF LInv, IInv
<1> QED
  BY <1>1, GotoElsewhere, SameActive, ShrinkInv

-----------------------------------------------------------------------------
(* What the steps that touch bans do to the active ones.                      *)

\* A query that finds no active ban lets the request insert one.
LEMMA QueryActiveLInv ==
    ASSUME LInv, IInv', NEW r \in Reqs, QueryActive(r)
    PROVE  LInv'
<1>1. /\ req[r] \in Request /\ req[r].pc = "query" /\ TypeOK
      /\ UNCHANGED <<bans, clock>>
  BY DEF LInv, IInv, TypeOK, QueryActive
<1>2. CASE ActiveBans(req[r].user) # {}
  BY <1>1, <1>2, QuietLInv DEF QueryActive, Pcs
<1>3. CASE ActiveBans(req[r].user) = {}
  <2>1. Goto(r, req[r], "insert")
    BY <1>3 DEF QueryActive
  <2>2. /\ req'[r] = [req[r] EXCEPT !.pc = "insert"]
        /\ \A s \in Reqs \ {r} : req'[s] = req[s]
    BY <1>1, <2>1, GotoType DEF Pcs
  <2>3. req'[r].user = req[r].user
    BY <1>1, <2>2 DEF Request
  <2>4. \A u \in Users : ActiveBans(u)' = ActiveBans(u)
    BY <1>1, SameActive
  <2>5. QueryFresh'
    BY <1>3, <2>2, <2>3, <2>4 DEF LInv, QueryFresh
  <2>6. UniqueActive'
    BY <2>4 DEF LInv, UniqueActive
  <2> QED
    BY <2>5, <2>6 DEF LInv
<1> QED
  BY <1>2, <1>3

\* The row of an inserted ban, and the sets of active bans after it.
LEMMA InsertEffect ==
    ASSUME LInv, NEW r \in Reqs, InsertBan(r), {req[r].user, req[r].admin} \subseteq here
    PROVE  \E b \in Bans :
             /\ bans[b].state = "unused"
             /\ Used' = Used \cup {b}
             /\ \A u \in Users :
                  \/ ActiveBans(u)' = ActiveBans(u)
                  \/ u = req[r].user /\ ActiveBans(u) = {} /\ ActiveBans(u)' = {b}
<1>1. req[r] \in Request /\ req[r].pc = "insert" /\ TypeOK
  BY DEF LInv, IInv, TypeOK, InsertBan
<1> DEFINE row == [state |-> "stored", user |-> req[r].user, banned_by |-> req[r].admin,
                   deactivated_by |-> NoUser, is_currently_active |-> TRUE,
                   expires_at |-> req[r].expires]
<1>2. \E b \in {c \in Bans : bans[c].state = "unused"} : bans' = [bans EXCEPT ![b] = row]
  BY Zenon DEF InsertBan
<1>3. PICK b \in Bans : bans[b].state = "unused" /\ bans' = [bans EXCEPT ![b] = row]
  BY <1>2
<1>4. row.state = "stored" /\ row.user = req[r].user
  OBVIOUS
<1> HIDE DEF row
<1>5. /\ \A c \in Bans \ {b} : bans'[c] = bans[c]
      /\ bans'[b] = row
      /\ UNCHANGED clock
  BY <1>1, <1>3 DEF TypeOK, InsertBan
<1>6. Used' = Used \cup {b}
  BY <1>3, <1>4, <1>5 DEF Used
<1>7. ASSUME NEW u \in Users
      PROVE  \/ ActiveBans(u)' = ActiveBans(u)
             \/ u = req[r].user /\ ActiveBans(u) = {} /\ ActiveBans(u)' = {b}
  <2>1. \A c \in Bans \ {b} : c \in ActiveBans(u)' <=> c \in ActiveBans(u)
    BY <1>5 DEF ActiveBans, IsActive
  <2>2. b \notin ActiveBans(u) /\ ActiveBans(u) \subseteq Bans /\ ActiveBans(u)' \subseteq Bans
    BY <1>3 DEF ActiveBans, IsActive
  <2>3. b \in ActiveBans(u)' => u = req[r].user
    BY <1>4, <1>5 DEF ActiveBans
  <2>4. u = req[r].user => ActiveBans(u) = {}
    BY <1>1 DEF LInv, QueryFresh
  <2> QED
    BY <2>1, <2>2, <2>3, <2>4
<1> QED
  BY <1>3, <1>6, <1>7

LEMMA InsertBanLInv ==
    ASSUME OneCreator, LInv, IInv', NEW r \in Reqs, InsertBan(r)
    PROVE  LInv'
<1>1. req[r] \in Request /\ req[r].pc = "insert" /\ TypeOK /\ Goto(r, req[r], "idle") /\ UNCHANGED clock
  BY DEF LInv, IInv, TypeOK, InsertBan
<1>2. CASE ~({req[r].user, req[r].admin} \subseteq here)
  BY <1>1, <1>2, QuietLInv DEF InsertBan, Pcs
<1>3. CASE {req[r].user, req[r].admin} \subseteq here
  <2>1. PICK b \in Bans : \A u \in Users :
             \/ ActiveBans(u)' = ActiveBans(u)
             \/ u = req[r].user /\ ActiveBans(u) = {} /\ ActiveBans(u)' = {b}
    BY <1>3, InsertEffect
  <2>2. UniqueActive'
    BY <2>1 DEF LInv, UniqueActive
  <2>3. \A s \in Reqs : req'[s].pc # "insert"
    <3>1. \A s \in Reqs : req'[s].pc = "insert" => req[s].pc = "insert" /\ s # r
      <4>1. "idle" \in Pcs \ {"insert"}
        BY DEF Pcs
      <4>2. req'[r] = Idle
        BY <1>1, <4>1, GotoType
      <4> QED
        BY <1>1, <4>1, <4>2, GotoElsewhere DEF Idle
    <3>2. \A s \in Reqs : req[s].pc = "insert" => s = r
      BY <1>1 DEF OneCreator, LInv, IInv, ReqShape
    <3> QED
      BY <3>1, <3>2
  <2>4. QueryFresh'
    BY <2>3 DEF QueryFresh
  <2> QED
    BY <2>2, <2>4 DEF LInv
<1> QED
  BY <1>2, <1>3

\* Lifting a ban ends it, if it was active, and no other.
LEMMA DeactivateEffect ==
    ASSUME TypeOK, NEW b \in Bans, NEW admin \in Users, Deactivate(b, admin)
    PROVE  /\ Used' = Used
           /\ \A u \in Users : ActiveBans(u)' = ActiveBans(u) \ {b}
<1>1. /\ \A c \in Bans \ {b} : bans'[c] = bans[c]
      /\ bans'[b].state = "stored" /\ bans[b].state = "stored"
      /\ ~bans'[b].is_currently_active
      /\ UNCHANGED clock
  <2>1. bans[b] \in BanRow
    BY DEF TypeOK
  <2> QED
    BY <2>1 DEF TypeOK, BanRow, Deactivate
<1>2. Used' = Used
  BY <1>1 DEF Used
<1>3. ASSUME NEW u \in Users
      PROVE  ActiveBans(u)' = ActiveBans(u) \ {b}
  <2>1. \A c \in Bans \ {b} : c \in ActiveBans(u)' <=> c \in ActiveBans(u)
    BY <1>1 DEF ActiveBans, IsActive
  <2>2. b \notin ActiveBans(u)' /\ ActiveBans(u) \subseteq Bans /\ ActiveBans(u)' \subseteq Bans
    BY <1>1 DEF ActiveBans, IsActive
  <2> QED
    BY <2>1, <2>2
<1> QED
  BY <1>2, <1>3

LEMMA DeactivateLInv ==
    ASSUME LInv, IInv', NEW b \in Bans, NEW admin \in Users, Deactivate(b, admin)
    PROVE  LInv'
<1>1. \A u \in Users : ActiveBans(u)' \subseteq ActiveBans(u)
  BY DeactivateEffect DEF LInv, IInv
<1>2. UNCHANGED req
  BY DEF Deactivate
<1> QED
  BY <1>1, <1>2, ShrinkInv

\* Deleting a user ends the bans they are under, and no other.
LEMMA FlushEffect ==
    ASSUME TypeOK, NEW r \in Reqs, FlushDelete(r), req[r].user \in here, CanDelete(req[r])
    PROVE  /\ Used' = Used
           /\ here' = here \ {req[r].user}
           /\ \A u \in Users :
                ActiveBans(u)' = IF u = req[r].user THEN {} ELSE ActiveBans(u)
<1> DEFINE d == req[r].user
           After(b) == IF bans[b].state = "stored" /\ bans[b].user = d
                       THEN [bans[b] EXCEPT !.state = "gone"]
                       ELSE IF b \in req[r].issued THEN [bans[b] EXCEPT !.banned_by = NoUser]
                       ELSE bans[b]
<1>1. here' = here \ {d} /\ bans' = [b \in Bans |-> After(b)] /\ UNCHANGED clock
  BY DEF FlushDelete
<1>2. \A b \in Bans : bans[b] \in BanRow
  BY DEF TypeOK
<1>3. ASSUME NEW b \in Bans
      PROVE  /\ After(b).state = IF bans[b].state = "stored" /\ bans[b].user = d
                                 THEN "gone" ELSE bans[b].state
             /\ After(b).user = bans[b].user
             /\ After(b).is_currently_active = bans[b].is_currently_active
             /\ After(b).expires_at = bans[b].expires_at
  BY <1>2 DEF BanRow
<1> HIDE DEF After, d
<1>4. \A b \in Bans : bans'[b] = After(b)
  BY <1>1
<1>5. Used' = Used
  BY <1>3, <1>4 DEF Used
<1>6. ASSUME NEW u \in Users
      PROVE  ActiveBans(u)' = IF u = d THEN {} ELSE ActiveBans(u)
  BY <1>1, <1>3, <1>4 DEF ActiveBans, IsActive
<1> QED
  BY <1>1, <1>5, <1>6 DEF d

LEMMA FlushDeleteLInv ==
    ASSUME LInv, IInv', NEW r \in Reqs, FlushDelete(r)
    PROVE  LInv'
<1>1. req[r] \in Request /\ "idle" \in Pcs \ {"insert"} /\ TypeOK /\ Goto(r, req[r], "idle")
  BY DEF LInv, IInv, TypeOK, FlushDelete, Pcs
<1>2. CASE ~(req[r].user \in here /\ CanDelete(req[r]))
  <2>1. UNCHANGED <<bans, clock>>
    BY <1>2 DEF FlushDelete
  <2> QED
    BY <1>1, <2>1, QuietLInv
<1>3. CASE req[r].user \in here /\ CanDelete(req[r])
  <2>1. \A u \in Users : ActiveBans(u)' \subseteq ActiveBans(u)
    BY <1>1, <1>3, FlushEffect
  <2> QED
    BY <1>1, <2>1, GotoElsewhere, ShrinkInv
<1> QED
  BY <1>2, <1>3

\* Time only ends bans.
LEMMA TickEffect ==
    ASSUME TypeOK, Tick
    PROVE  Used' = Used /\ \A u \in Users : ActiveBans(u)' \subseteq ActiveBans(u)
<1>1. Used' = Used
  BY DEF Tick, Used
<1>2. ASSUME NEW u \in Users, NEW b \in ActiveBans(u)'
      PROVE  b \in ActiveBans(u)
  <2>1. b \in Bans /\ bans[b] \in BanRow /\ clock \in Nat /\ clock' = clock + 1 /\ bans' = bans
    BY DEF ActiveBans, TypeOK, Tick
  <2>2. bans[b].expires_at = Never \/ bans[b].expires_at > clock + 1
    BY <1>2, <2>1 DEF ActiveBans, IsActive
  <2>3. bans[b].expires_at = Never \/ bans[b].expires_at > clock
    <3>1. bans[b].expires_at = Never \/ bans[b].expires_at \in Nat
      BY <2>1 DEF BanRow
    <3> QED
      BY <2>1, <2>2, <3>1
  <2> QED
    BY <1>2, <2>1, <2>3 DEF ActiveBans, IsActive
<1> QED
  BY <1>1, <1>2

LEMMA NextLInv == OneCreator => (LInv /\ [Next]_vars => LInv')
<1> SUFFICES ASSUME OneCreator, LInv, [Next]_vars PROVE LInv'
  OBVIOUS
<1>0. IInv'
  BY NextInv DEF LInv
<1>1. ASSUME NEW r \in Reqs, NEW q \in Request, NEW pc \in Pcs \ {"insert"}, Goto(r, q, pc),
             UNCHANGED <<bans, clock>>
      PROVE  LInv'
  BY <1>0, <1>1, QuietLInv
<1>2. ASSUME NEW r \in Reqs, BeginCreate(r) PROVE LInv'
  <2>1. PICK u \in Users, admin \in Users, e \in (0..MaxClock) \cup {Never} :
           Goto(r, [Idle EXCEPT !.user = u, !.admin = admin, !.expires = e], "check")
    BY <1>2, Zenon DEF BeginCreate
  <2>2. Idle \in Request /\ e \in Nat \cup {Never}
    BY ConstantsAssumption DEF Idle, Request, Pcs
  <2>3. [Idle EXCEPT !.user = u, !.admin = admin, !.expires = e] \in Request
    BY <2>2 DEF Request
  <2> QED
    BY <1>1, <1>2, <2>1, <2>3 DEF BeginCreate, Pcs
<1>3. ASSUME NEW r \in Reqs, CheckUser(r) PROVE LInv'
  BY <1>1, <1>3 DEF CheckUser, LInv, IInv, TypeOK, Pcs
<1>4. ASSUME NEW r \in Reqs, BeginDelete(r) PROVE LInv'
  <2>1. PICK u \in here : Goto(r, [Idle EXCEPT !.user = u], "load")
    BY <1>4, Zenon DEF BeginDelete
  <2>2. Idle \in Request /\ u \in Users
    BY DEF Idle, Request, Pcs, LInv, IInv, TypeOK
  <2>3. [Idle EXCEPT !.user = u] \in Request
    BY <2>2 DEF Request
  <2> QED
    BY <1>1, <1>4, <2>1, <2>3 DEF BeginDelete, Pcs
<1>5. ASSUME NEW r \in Reqs, LoadChildren(r) PROVE LInv'
  <2> DEFINE S == {b \in Stored : bans[b].banned_by = req[r].user}
             pc == IF req[r].user \in here THEN "flush" ELSE "idle"
  <2>1. S \in SUBSET Bans /\ req[r] \in Request /\ pc \in Pcs \ {"insert"}
    BY DEF Stored, LInv, IInv, TypeOK, Pcs
  <2>2. Goto(r, [req[r] EXCEPT !.issued = S], pc) /\ UNCHANGED <<bans, clock>>
    BY <1>5 DEF LoadChildren
  <2> HIDE DEF S, pc
  <2>3. [req[r] EXCEPT !.issued = S] \in Request
    BY <2>1 DEF Request
  <2> QED
    BY <1>1, <2>1, <2>2, <2>3
<1>6. ASSUME NEW r \in Reqs, Crash(r) PROVE LInv'
  BY <1>1, <1>6 DEF Crash, LInv, IInv, TypeOK, Pcs
<1>7. ASSUME Tick PROVE LInv'
  <2>1. \A u \in Users : ActiveBans(u)' \subseteq ActiveBans(u)
    BY <1>7, TickEffect DEF LInv, IInv
  <2> QED
    BY <1>0, <1>7, <2>1, ShrinkInv DEF Tick
<1>8. ASSUME UNCHANGED vars PROVE LInv'
  BY <1>0, <1>8, SameActive, ShrinkInv DEF vars
<1>9. ASSUME NEW r \in Reqs, QueryActive(r) \/ InsertBan(r) \/ FlushDelete(r) PROVE LInv'
  BY <1>0, <1>9, QueryActiveLInv, InsertBanLInv, FlushDeleteLInv
<1>10. ASSUME NEW b \in Bans, NEW admin \in Users, Deactivate(b, admin) PROVE LInv'
  BY <1>0, <1>10, DeactivateLInv
<1> QED
  BY <1>2, <1>3, <1>4, <1>5, <1>6, <1>7, <1>8, <1>9, <1>10 DEF Next

LEMMA InitLInv == Init => LInv
<1> SUFFICES ASSUME Init PROVE LInv
  OBVIOUS
<1>1. \A u \in Users : ActiveBans(u) = {}
  BY DEF Init, ActiveBans, IsActive
<1> QED
  BY <1>1, InitInv DEF LInv, UniqueActive, QueryFresh

LEMMA LInvariance == OneCreator => (Spec => []LInv)
<1> SUFFICES ASSUME OneCreator PROVE Spec => []LInv
  OBVIOUS
<1>1. LInv /\ [Next]_vars => LInv'
  BY NextLInv
<1> QED
  BY <1>1, InitLInv, PTL DEF Spec

-----------------------------------------------------------------------------
(* The refinement.                                                            *)

ViewFacts ==
    /\ \E f : Current = [u \in Users |-> f[u]]
    /\ \A u \in Users :
         /\ u \notin here => Current[u] = Deleted
         /\ u \in here /\ ActiveBans(u) = {} => Current[u] = NoBan
         /\ \A b \in ActiveBans(u) : u \in here /\ b \in Bans /\ Current[u] = b

LEMMA ViewLemma == LInv => ViewFacts
<1> SUFFICES ASSUME LInv PROVE ViewFacts
  OBVIOUS
<1>1. ASSUME NEW u \in Users, NEW b \in ActiveBans(u)
      PROVE  u \in here /\ b \in Bans /\ Current[u] = b
  <2>1. b \in Stored /\ bans[b].user = u
    BY <1>1 DEF ActiveBans, IsActive, Stored
  <2>2. u \in here /\ b \in Bans
    BY <2>1 DEF LInv, IInv, ReferencesExist, Stored
  <2>3. ActiveBans(u) = {b}
    BY <1>1 DEF LInv, UniqueActive
  <2>4. (CHOOSE c \in ActiveBans(u) : TRUE) = b
    BY <2>3
  <2> QED
    BY <2>2, <2>3, <2>4 DEF Current
<1>2. \A u \in Users : /\ u \notin here => Current[u] = Deleted
                       /\ u \in here /\ ActiveBans(u) = {} => Current[u] = NoBan
  BY DEF Current
<1>3. \E f : Current = [u \in Users |-> f[u]]
  <2>1. Current = [u \in Users |-> Current[u]]
    BY DEF Current
  <2> QED
    BY <2>1
<1> QED
  BY <1>1, <1>2, <1>3 DEF ViewFacts

\* The view of a user whose active bans and existence do not change.
LEMMA ViewSame ==
    ASSUME ViewFacts, ViewFacts', NEW u \in Users,
           u \in here' <=> u \in here, ActiveBans(u)' = ActiveBans(u)
    PROVE  Current'[u] = Current[u]
<1>1. CASE u \notin here
  BY <1>1 DEF ViewFacts
<1>2. CASE u \in here /\ ActiveBans(u) = {}
  BY <1>2 DEF ViewFacts
<1>3. CASE ActiveBans(u) # {}
  BY <1>3 DEF ViewFacts
<1> QED
  BY <1>1, <1>2, <1>3

LEMMA ViewStutter ==
    ASSUME ViewFacts, ViewFacts', here' = here,
           \A u \in Users : ActiveBans(u)' = ActiveBans(u)
    PROVE  Current' = Current
<1>1. \A u \in Users : Current'[u] = Current[u]
  BY ViewSame
<1> QED
  BY <1>1 DEF ViewFacts

\* An insertion is Impose, Record when the ban has expired, or a stutter.
LEMMA InsertRefines ==
    ASSUME LInv, ViewFacts, ViewFacts', NEW r \in Reqs, InsertBan(r)
    PROVE  [Ledger!Next]_<<Current, Used>>
<1>0. UNCHANGED here /\ req[r].user \in Users
  BY DEF InsertBan, LInv, IInv, ReqShape
<1>d. PICK d \in Users : d = req[r].user
  BY <1>0
<1>1. CASE ~({req[r].user, req[r].admin} \subseteq here)
  <2>1. UNCHANGED <<bans, clock, here>>
    BY <1>1 DEF InsertBan
  <2>2. Used' = Used
    BY <2>1 DEF Used
  <2> QED
    BY <2>1, <2>2, SameActive, ViewStutter
<1>2. CASE {req[r].user, req[r].admin} \subseteq here
  <2>1. PICK b \in Bans :
             /\ bans[b].state = "unused"
             /\ Used' = Used \cup {b}
             /\ \A u \in Users :
                  \/ ActiveBans(u)' = ActiveBans(u)
                  \/ u = d /\ ActiveBans(u) = {} /\ ActiveBans(u)' = {b}
    BY <1>2, <1>d, InsertEffect
  <2>2. b \notin Used
    BY <2>1 DEF Used
  <2>3. CASE \A u \in Users : ActiveBans(u)' = ActiveBans(u)
    <3>1. Current' = Current
      BY <1>0, <2>3, ViewStutter
    <3> QED
      BY <2>1, <2>2, <3>1 DEF Ledger!Next, Ledger!Record
  <2>4. CASE ActiveBans(d) = {} /\ ActiveBans(d)' = {b}
    <3>1. Current[d] = NoBan /\ Current'[d] = b
      BY <1>0, <1>2, <1>d, <2>4 DEF ViewFacts
    <3>2. \A u \in Users \ {d} : Current'[u] = Current[u]
      BY <1>0, <2>1, ViewSame
    <3>3. Current' = [Current EXCEPT ![d] = b]
      BY <1>0, <3>1, <3>2 DEF ViewFacts
    <3>4. Ledger!Impose(d, b)
      BY <2>1, <2>2, <3>1, <3>3 DEF Ledger!Impose
    <3> QED
      BY <1>0, <3>4 DEF Ledger!Next
  <2> QED
    BY <2>1, <2>3, <2>4
<1> QED
  BY <1>1, <1>2

\* Lifting the active ban is Lift, lifting another a stutter.
LEMMA DeactivateRefines ==
    ASSUME LInv, ViewFacts, ViewFacts', NEW b \in Bans, NEW admin \in Users,
           Deactivate(b, admin)
    PROVE  [Ledger!Next]_<<Current, Used>>
<1>1. Used' = Used /\ here' = here /\ \A u \in Users : ActiveBans(u)' = ActiveBans(u) \ {b}
  BY DeactivateEffect DEF LInv, IInv, Deactivate
<1>2. CASE \A u \in Users : b \notin ActiveBans(u)
  BY <1>1, <1>2, ViewStutter
<1>3. CASE \E u \in Users : b \in ActiveBans(u)
  <2>1. PICK d \in Users : b \in ActiveBans(d)
    BY <1>3
  <2>2. \A u \in Users \ {d} : b \notin ActiveBans(u)
    BY <2>1 DEF ActiveBans
  <2>3. ActiveBans(d)' = {}
    BY <1>1, <2>1 DEF LInv, UniqueActive
  <2>4. Current[d] \in Bans /\ Current'[d] = NoBan
    BY <1>1, <2>1, <2>3 DEF ViewFacts
  <2>5. \A u \in Users \ {d} : Current'[u] = Current[u]
    BY <1>1, <2>2, ViewSame
  <2>6. Current' = [Current EXCEPT ![d] = NoBan]
    BY <2>4, <2>5 DEF ViewFacts
  <2>7. Ledger!Lift(d)
    BY <1>1, <2>4, <2>6 DEF Ledger!Lift
  <2> QED
    BY <2>7 DEF Ledger!Next
<1> QED
  BY <1>2, <1>3

\* The deletion of a user is Delete, or a stutter when it is refused.
LEMMA FlushRefines ==
    ASSUME LInv, ViewFacts, ViewFacts', NEW r \in Reqs, FlushDelete(r)
    PROVE  [Ledger!Next]_<<Current, Used>>
<1> DEFINE d == req[r].user
<1>1. CASE ~(req[r].user \in here /\ CanDelete(req[r]))
  <2>1. UNCHANGED <<bans, clock, here>>
    BY <1>1 DEF FlushDelete
  <2>2. Used' = Used
    BY <2>1 DEF Used
  <2> QED
    BY <2>1, <2>2, SameActive, ViewStutter
<1>2. CASE req[r].user \in here /\ CanDelete(req[r])
  <2>1. /\ Used' = Used /\ here' = here \ {d} /\ d \in Users /\ d \in here
        /\ \A u \in Users : ActiveBans(u)' = IF u = d THEN {} ELSE ActiveBans(u)
    BY <1>2, FlushEffect DEF LInv, IInv, TypeOK
  <2>2. Current[d] \in Bans \cup {NoBan} /\ Current'[d] = Deleted
    BY <2>1 DEF ViewFacts
  <2>3. \A u \in Users \ {d} : Current'[u] = Current[u]
    BY <2>1, ViewSame
  <2>4. Current' = [Current EXCEPT ![d] = Deleted]
    BY <2>2, <2>3 DEF ViewFacts
  <2>5. Ledger!Delete(d)
    BY <2>1, <2>2, <2>4, ConstantsAssumption DEF Ledger!Delete
  <2> QED
    BY <2>1, <2>5 DEF Ledger!Next
<1> QED
  BY <1>1, <1>2

\* A tick of the clock is Lapse for the users whose ban expires.
LEMMA TickRefines ==
    ASSUME LInv, ViewFacts, ViewFacts', Tick
    PROVE  [Ledger!Next]_<<Current, Used>>
<1> DEFINE S == {u \in Users : ActiveBans(u) # {} /\ ActiveBans(u)' = {}}
<1>1. Used' = Used /\ here' = here /\ \A u \in Users : ActiveBans(u)' \subseteq ActiveBans(u)
  BY TickEffect DEF LInv, IInv, Tick
<1>2. \A u \in S : Current[u] \in Bans /\ Current'[u] = NoBan
  BY <1>1 DEF ViewFacts
<1>3. \A u \in Users \ S : ActiveBans(u)' = ActiveBans(u)
  BY <1>1 DEF LInv, UniqueActive
<1>4. \A u \in Users \ S : Current'[u] = Current[u]
  BY <1>1, <1>3, ViewSame
<1>5. Current' = [u \in Users |-> IF u \in S THEN NoBan ELSE Current[u]]
  BY <1>2, <1>4 DEF ViewFacts
<1>6. S \in SUBSET Users
  OBVIOUS
<1> HIDE DEF S
<1>7. Ledger!Lapse(S)
  BY <1>1, <1>2, <1>5 DEF Ledger!Lapse
<1> QED
  BY <1>6, <1>7 DEF Ledger!Next

LEMMA InitRefines == Init => Ledger!Init
<1> SUFFICES ASSUME Init PROVE Ledger!Init
  OBVIOUS
<1>1. ViewFacts
  BY InitLInv, ViewLemma
<1>2. \A u \in Users : u \in here /\ ActiveBans(u) = {}
  BY DEF Init, ActiveBans, IsActive
<1>3. Current = [u \in Users |-> NoBan]
  BY <1>1, <1>2 DEF ViewFacts
<1>4. Used = {}
  BY DEF Init, Used
<1> QED
  BY <1>3, <1>4 DEF Ledger!Init

LEMMA NextRefines ==
    ASSUME LInv, ViewFacts, ViewFacts', [Next]_vars
    PROVE  [Ledger!Next]_<<Current, Used>>
<1>1. ASSUME UNCHANGED <<here, bans, clock>> PROVE [Ledger!Next]_<<Current, Used>>
  <2>1. Used' = Used /\ here' = here
    BY <1>1 DEF Used
  <2>2. \A u \in Users : ActiveBans(u)' = ActiveBans(u)
    BY <1>1, SameActive
  <2> QED
    BY <2>1, <2>2, ViewStutter
<1>2. ASSUME NEW r \in Reqs, \/ BeginCreate(r) \/ CheckUser(r) \/ QueryActive(r)
                             \/ BeginDelete(r) \/ LoadChildren(r) \/ Crash(r)
      PROVE  UNCHANGED <<here, bans, clock>>
  BY <1>2 DEF BeginCreate, CheckUser, QueryActive, BeginDelete, LoadChildren, Crash
<1>3. ASSUME NEW r \in Reqs, InsertBan(r) \/ FlushDelete(r)
      PROVE  [Ledger!Next]_<<Current, Used>>
  BY <1>3, InsertRefines, FlushRefines
<1>4. ASSUME NEW b \in Bans, NEW admin \in Users, Deactivate(b, admin)
      PROVE  [Ledger!Next]_<<Current, Used>>
  BY <1>4, DeactivateRefines
<1>5. ASSUME UNCHANGED vars PROVE UNCHANGED <<here, bans, clock>>
  BY <1>5 DEF vars
<1> QED
  BY <1>1, <1>2, <1>3, <1>4, <1>5, TickRefines DEF Next

\* While one slot serves creations, the registry implements the ledger.
THEOREM LedgerRefinement == OneCreator => (Spec => LedgerRefined)
<1> SUFFICES ASSUME OneCreator PROVE Spec => LedgerRefined
  OBVIOUS
<1>1. LInv => ViewFacts
  BY ViewLemma
<1>2. LInv /\ ViewFacts /\ ViewFacts' /\ [Next]_vars => [Ledger!Next]_<<Current, Used>>
  BY NextRefines
<1> QED
  BY <1>1, <1>2, InitRefines, LInvariance, PTL DEF Spec, LedgerRefined, Ledger!Spec
=============================================================================
