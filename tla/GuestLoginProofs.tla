-------------------------- MODULE GuestLoginProofs --------------------------
(* Safety of GuestLogin for every set of addresses, names, users and          *)
(* requests.                                                                  *)
EXTENDS GuestLogin, TLAPS

Pcs == {"idle", "lookup", "create", "touch", "issue"}

\* What the program counter of a request says about its data.
ReqShape ==
    \A r \in Reqs :
        /\ req[r].pc \in {"touch", "issue"} => req[r].guest \in GuestIds
        /\ req[r].pc \notin {"touch", "issue"} => req[r].guest = NoGuest

\* A request's guest has a row; from the touch on the row is locked, so it
\* cannot go away.
GuestKept ==
    \A r \in Reqs : req[r].guest # NoGuest =>
        /\ guests[req[r].guest].state # "unused"
        /\ req[r].pc = "issue" => guests[req[r].guest].state \in {"pending", "stored"}

\* A row that is not committed belongs to one transaction.
PendingOwned ==
    \A r, s \in Reqs :
        /\ req[r].guest # NoGuest /\ req[r].guest = req[s].guest
        /\ guests[req[r].guest].state = "pending"
        => r = s

\* No guest stored when a login's look-up found none has the login's address.
BeforeApart ==
    \A r \in Reqs : \A g \in req[r].before :
        /\ guests[g].state \in {"stored", "gone"}
        /\ guests[g].state = "stored" => guests[g].ip # req[r].ip

\* Nor has one the address of the guest that the login created.
PriorApart ==
    \A h \in GuestIds : \A g \in prior[h] :
        /\ guests[g].state \in {"stored", "gone"}
        /\ guests[g].state = "stored" /\ guests[h].state \in {"pending", "stored"} =>
              guests[g].ip # guests[h].ip

IInv ==
    /\ TypeOK
    /\ ReqShape
    /\ GuestKept
    /\ PendingOwned
    /\ BeforeApart
    /\ PriorApart
    /\ GuestBornWithToken

-----------------------------------------------------------------------------
LEMMA InitInv == Init => IInv
<1> SUFFICES ASSUME Init PROVE IInv
  OBVIOUS
<1>1. Blank \in GuestRow /\ Blank.state = "unused"
  BY DEF Blank, GuestRow
<1>2. Idle \in Request /\ Idle.pc = "idle" /\ Idle.guest = NoGuest /\ Idle.before = {}
  BY DEF Idle, Request
<1>3. TypeOK
  BY <1>1, <1>2 DEF Init, TypeOK
<1>4. ReqShape /\ GuestKept /\ PendingOwned /\ BeforeApart
  BY <1>2 DEF Init, ReqShape, GuestKept, PendingOwned, BeforeApart
<1>5. PriorApart /\ GuestBornWithToken
  BY <1>1 DEF Init, PriorApart, GuestBornWithToken, Stored
<1> QED
  BY <1>3, <1>4, <1>5 DEF IInv

\* The data q of request r at pc is as the invariant wants it.
Fits(r, q, pc) ==
    /\ pc \in {"touch", "issue"} => q.guest \in GuestIds
    /\ pc \notin {"idle", "touch", "issue"} => q.guest = NoGuest
    /\ pc # "idle" /\ q.guest # NoGuest =>
          /\ guests[q.guest].state # "unused"
          /\ pc = "issue" => guests[q.guest].state \in {"pending", "stored"}
    /\ pc # "idle" => \A g \in q.before :
          /\ guests[g].state \in {"stored", "gone"}
          /\ guests[g].state = "stored" => guests[g].ip # q.ip

\* A request goes on, and only that request moves.
LEMMA GotoReq ==
    ASSUME TypeOK, NEW r \in Reqs, NEW q \in Request, NEW pc \in Pcs, Goto(r, q, pc)
    PROVE  /\ req' \in [Reqs -> Request]
           /\ \A s \in Reqs \ {r} : req'[s] = req[s]
           /\ req'[r].pc = pc
           /\ pc # "idle" => /\ req'[r].guest = q.guest /\ req'[r].ip = q.ip
                             /\ req'[r].before = q.before
           /\ pc = "idle" => req'[r].guest = NoGuest /\ req'[r].before = {}
<1> DEFINE new == [q EXCEPT !.pc = pc]
<1>1. /\ new \in Request /\ new.pc = pc /\ new.guest = q.guest /\ new.ip = q.ip
      /\ new.before = q.before
  BY DEF Request, Pcs
<1>2. Idle \in Request /\ Idle.pc = "idle" /\ Idle.guest = NoGuest /\ Idle.before = {}
  BY DEF Idle, Request
<1>3. req' = [req EXCEPT ![r] = IF pc = "idle" THEN Idle ELSE new]
  BY DEF Goto
<1> HIDE DEF new
<1>4. /\ req' \in [Reqs -> Request]
      /\ req'[r] = IF pc = "idle" THEN Idle ELSE new
      /\ \A s \in Reqs \ {r} : req'[s] = req[s]
  BY <1>1, <1>2, <1>3 DEF TypeOK
<1> QED
  BY <1>1, <1>2, <1>4

\* A step of a request that changes no row.
LEMMA MoveInv ==
    ASSUME IInv, NEW r \in Reqs, NEW q \in Request, NEW pc \in Pcs, Goto(r, q, pc),
           Fits(r, q, pc),
           pc \in {"touch", "issue"} =>
              q.guest = req[r].guest \/ guests[q.guest].state # "pending",
           UNCHANGED <<guests, tokened, prior>>
    PROVE  IInv'
<1>1. /\ req' \in [Reqs -> Request]
      /\ \A s \in Reqs \ {r} : req'[s] = req[s]
      /\ req'[r].pc = pc
      /\ pc # "idle" => /\ req'[r].guest = q.guest /\ req'[r].ip = q.ip
                        /\ req'[r].before = q.before
      /\ pc = "idle" => req'[r].guest = NoGuest /\ req'[r].before = {}
  BY GotoReq DEF IInv
<1>2. TypeOK' /\ PriorApart' /\ GuestBornWithToken'
  BY <1>1 DEF IInv, TypeOK, PriorApart, GuestBornWithToken, Stored
<1>3. ReqShape'
  BY <1>1 DEF IInv, ReqShape, Fits
<1>4. GuestKept'
  BY <1>1 DEF IInv, GuestKept, Fits
<1>5. BeforeApart'
  BY <1>1 DEF IInv, BeforeApart, Fits
<1>6. PendingOwned'
  <2> SUFFICES ASSUME NEW s \in Reqs, NEW t \in Reqs, s # t, req'[s].guest # NoGuest,
                      req'[s].guest = req'[t].guest, guests[req'[s].guest].state = "pending"
               PROVE  FALSE
    BY DEF PendingOwned
  <2>1. req'[s].guest = req[s].guest /\ req'[t].guest = req[t].guest
    BY <1>1 DEF Fits
  <2> QED
    BY <2>1 DEF IInv, PendingOwned
<1> QED
  BY <1>2, <1>3, <1>4, <1>5, <1>6 DEF IInv

\* A request ends without having changed a row.
LEMMA EndInv ==
    ASSUME IInv, NEW r \in Reqs, Goto(r, req[r], "idle"), UNCHANGED <<guests, tokened, prior>>
    PROVE  IInv'
<1>1. req[r] \in Request /\ "idle" \in Pcs /\ Fits(r, req[r], "idle")
  BY DEF IInv, TypeOK, Pcs, Fits
<1> QED
  BY <1>1, MoveInv

-----------------------------------------------------------------------------
LEMMA BeginInv ==
    ASSUME IInv, NEW r \in Reqs, Begin(r) PROVE IInv'
<1>1. PICK ip \in Ips : Goto(r, [Idle EXCEPT !.ip = ip], "lookup")
  BY DEF Begin
<1> DEFINE q == [Idle EXCEPT !.ip = ip]
<1>2. q \in Request /\ q.guest = NoGuest /\ q.before = {}
  BY DEF Idle, Request
<1>3. Goto(r, q, "lookup")
  BY <1>1
<1> HIDE DEF q
<1>4. Fits(r, q, "lookup")
  BY <1>2 DEF Fits
<1> QED
  BY <1>2, <1>3, <1>4, MoveInv DEF Begin, Pcs

LEMMA LookupInv ==
    ASSUME IInv, NEW r \in Reqs, Lookup(r) PROVE IInv'
<1>0. /\ req[r].pc = "lookup" /\ req[r] \in Request /\ req[r].guest = NoGuest
      /\ UNCHANGED <<guests, tokened, prior>>
  BY DEF Lookup, IInv, TypeOK, ReqShape
<1>1. ASSUME NEW g \in OfIp(req[r].ip), Goto(r, [req[r] EXCEPT !.guest = g], "touch")
      PROVE  IInv'
  <2> DEFINE q == [req[r] EXCEPT !.guest = g]
  <2>1. g \in GuestIds /\ guests[g].state = "stored"
    BY DEF OfIp, Stored
  <2>2. /\ q \in Request /\ q.guest = g /\ q.before = req[r].before /\ q.ip = req[r].ip
    BY <1>0, <2>1 DEF Request
  <2>3. Goto(r, q, "touch")
    BY <1>1
  <2> HIDE DEF q
  <2>4. Fits(r, q, "touch")
    BY <2>1, <2>2 DEF Fits, IInv, BeforeApart
  <2> QED
    BY <1>0, <2>1, <2>2, <2>3, <2>4, MoveInv DEF Pcs
<1>2. ASSUME OfIp(req[r].ip) = {}, NEW n \in Names,
             Goto(r, [req[r] EXCEPT !.name = n, !.before = Stored], "create")
      PROVE  IInv'
  <2> DEFINE q == [req[r] EXCEPT !.name = n, !.before = Stored]
  <2>1. \A g \in Stored : guests[g].state = "stored" /\ guests[g].ip # req[r].ip
    BY <1>2 DEF OfIp, Stored
  <2>2. /\ q \in Request /\ q.guest = NoGuest /\ q.before = Stored /\ q.ip = req[r].ip
    BY <1>0 DEF Request, Stored
  <2>3. Goto(r, q, "create")
    BY <1>2
  <2> HIDE DEF q
  <2>4. Fits(r, q, "create")
    BY <2>1, <2>2 DEF Fits
  <2> QED
    BY <1>0, <2>2, <2>3, <2>4, MoveInv DEF Pcs
<1> QED
  BY <1>0, <1>1, <1>2, EndInv DEF Lookup

LEMMA TouchInv ==
    ASSUME IInv, NEW r \in Reqs, Touch(r) PROVE IInv'
<1>0. /\ req[r].pc = "touch" /\ req[r] \in Request /\ req[r].guest \in GuestIds
      /\ UNCHANGED <<guests, tokened, prior>>
  BY DEF Touch, IInv, TypeOK, ReqShape
<1>1. CASE guests[req[r].guest].state \in {"pending", "stored"}
  <2>1. Fits(r, req[r], "issue")
    BY <1>0, <1>1 DEF Fits, IInv, BeforeApart
  <2> QED
    BY <1>0, <1>1, <2>1, MoveInv DEF Touch, Pcs
<1>2. CASE guests[req[r].guest].state \notin {"pending", "stored"}
  BY <1>0, <1>2, EndInv DEF Touch
<1> QED
  BY <1>1, <1>2

-----------------------------------------------------------------------------
\* Rows that are stored or gone stay so, and keep their address while stored.
RowsAge ==
    \A g \in GuestIds :
        guests[g].state \in {"stored", "gone"} =>
            /\ guests'[g].state \in {"stored", "gone"}
            /\ guests'[g].state = "stored" => /\ guests[g].state = "stored"
                                              /\ guests'[g].ip = guests[g].ip

\* No row comes into being.
NoRowCreated ==
    \A g \in GuestIds :
        guests'[g].state \in {"pending", "stored"} =>
            guests[g].state \in {"pending", "stored"} /\ guests'[g].ip = guests[g].ip

\* Those facts about addresses outlive such a step.
LEMMA ApartKept ==
    ASSUME IInv, RowsAge, NoRowCreated,
           \A g \in GuestIds : prior'[g] \subseteq prior[g],
           \A r \in Reqs : \/ req'[r].before = {}
                           \/ req'[r].before = req[r].before /\ req'[r].ip = req[r].ip
    PROVE  PriorApart' /\ BeforeApart'
<1>1. \A r \in Reqs : req[r].before \subseteq GuestIds
  BY DEF IInv, TypeOK, Request
<1>2. \A h \in GuestIds : prior[h] \subseteq GuestIds
  BY DEF IInv, TypeOK
<1>3. BeforeApart'
  BY <1>1 DEF IInv, BeforeApart, RowsAge
<1>4. PriorApart'
  BY <1>2 DEF IInv, PriorApart, RowsAge, NoRowCreated
<1> QED
  BY <1>3, <1>4

\* A new row, in the transaction of its request only.
LEMMA CreateInv ==
    ASSUME IInv, NEW r \in Reqs, Create(r) PROVE IInv'
<1>0. /\ req[r].pc = "create" /\ req[r] \in Request /\ req[r].guest = NoGuest
      /\ UNCHANGED tokened
  BY DEF Create, IInv, TypeOK, ReqShape
<1>1. CASE Goto(r, req[r], "idle") /\ UNCHANGED <<guests, prior>>
  BY <1>0, <1>1, EndInv
<1>2. ASSUME NEW g \in GuestIds, guests[g].state = "unused",
             guests' = [guests EXCEPT ![g] =
                [state |-> "pending", ip |-> req[r].ip, name |-> req[r].name,
                 is_active |-> TRUE, by |-> "login"]],
             prior' = [prior EXCEPT ![g] = req[r].before],
             Goto(r, [req[r] EXCEPT !.guest = g], "touch")
      PROVE  IInv'
  <2> DEFINE row == [state |-> "pending", ip |-> req[r].ip, name |-> req[r].name,
                     is_active |-> TRUE, by |-> "login"]
             q == [req[r] EXCEPT !.guest = g]
  <2>1. row \in GuestRow /\ row.state = "pending" /\ row.ip = req[r].ip
    BY <1>0 DEF GuestRow, Request
  <2>2. /\ guests' \in [GuestIds -> GuestRow] /\ guests'[g] = row
        /\ \A h \in GuestIds \ {g} : guests'[h] = guests[h]
    BY <1>2, <2>1 DEF IInv, TypeOK
  <2>3. /\ q \in Request /\ q.guest = g /\ q.before = req[r].before /\ q.ip = req[r].ip
        /\ Goto(r, q, "touch")
    BY <1>0, <1>2 DEF Request
  <2> HIDE DEF row, q
  <2>4. /\ req' \in [Reqs -> Request]
        /\ \A s \in Reqs \ {r} : req'[s] = req[s]
        /\ req'[r].pc = "touch" /\ req'[r].guest = g /\ req'[r].before = req[r].before
        /\ req'[r].ip = req[r].ip
    BY <2>3, GotoReq DEF IInv, Pcs
  <2>5. /\ prior' \in [GuestIds -> SUBSET GuestIds] /\ prior'[g] = req[r].before
        /\ \A h \in GuestIds \ {g} : prior'[h] = prior[h]
    BY <1>0, <1>2 DEF IInv, TypeOK, Request
  <2>6. TypeOK' /\ ReqShape'
    BY <1>0, <2>2, <2>4, <2>5 DEF IInv, TypeOK, ReqShape
  <2>7. \A s \in Reqs \ {r} : req'[s].guest = NoGuest \/ req'[s].guest \in GuestIds \ {g}
    BY <1>2, <2>4 DEF IInv, GuestKept, ReqShape
  <2>8. GuestKept'
    BY <2>1, <2>2, <2>4, <2>7 DEF IInv, GuestKept
  <2>9. PendingOwned'
    BY <2>2, <2>4, <2>7 DEF IInv, PendingOwned
  <2>10. \A h \in GuestIds : guests[h].state # "unused" => guests'[h] = guests[h] /\ h # g
    BY <1>2, <2>2
  <2>11. BeforeApart'
    BY <2>4, <2>10 DEF IInv, BeforeApart, TypeOK, Request
  <2>12. PriorApart'
    <3> SUFFICES ASSUME NEW h \in GuestIds, NEW k \in prior'[h]
                 PROVE  /\ guests'[k].state \in {"stored", "gone"}
                        /\ guests'[k].state = "stored" /\ guests'[h].state \in {"pending", "stored"} =>
                              guests'[k].ip # guests'[h].ip
      BY DEF PriorApart
    <3>1. k \in GuestIds
      BY <2>5
    <3>2. CASE h = g
      <4>1. k \in req[r].before
        BY <2>5, <3>2
      <4> QED
        BY <2>1, <2>2, <2>10, <3>1, <3>2, <4>1 DEF IInv, BeforeApart
    <3>3. CASE h # g
      <4>1. k \in prior[h] /\ guests'[h] = guests[h]
        BY <2>2, <2>5, <3>3
      <4> QED
        BY <2>10, <3>1, <4>1 DEF IInv, PriorApart
    <3> QED
      BY <3>2, <3>3
  <2>13. GuestBornWithToken'
    BY <1>0, <2>1, <2>2 DEF IInv, GuestBornWithToken, Stored
  <2> QED
    BY <2>6, <2>8, <2>9, <2>11, <2>12, <2>13 DEF IInv
<1> QED
  BY <1>1, <1>2 DEF Create

\* The row is committed with the token.
LEMMA IssueInv ==
    ASSUME IInv, NEW r \in Reqs, Issue(r) PROVE IInv'
<1> SUFFICES ASSUME ~UNCHANGED <<guests, tokened>> PROVE IInv'
  BY EndInv DEF Issue
<1>1. PICK g \in GuestIds : g = req[r].guest
  BY DEF Issue, IInv, ReqShape
<1>2. /\ guests' = [guests EXCEPT ![g].state = "stored"] /\ tokened' = tokened \cup {g}
      /\ Goto(r, req[r], "idle") /\ UNCHANGED prior
      /\ guests[g].state \in {"pending", "stored"} /\ req[r] \in Request
      /\ req[r].pc = "issue"
  BY <1>1, ConstantsAssumption DEF Issue, IInv, GuestKept, TypeOK, ReqShape
<1>3. /\ guests' \in [GuestIds -> GuestRow] /\ guests'[g].state = "stored"
      /\ guests'[g].ip = guests[g].ip
      /\ \A h \in GuestIds \ {g} : guests'[h] = guests[h]
  BY <1>2 DEF IInv, TypeOK, GuestRow
<1>4. /\ req' \in [Reqs -> Request]
      /\ \A s \in Reqs \ {r} : req'[s] = req[s]
      /\ req'[r].pc = "idle" /\ req'[r].guest = NoGuest /\ req'[r].before = {}
  BY <1>2, GotoReq DEF IInv, Pcs
<1>5. TypeOK' /\ ReqShape' /\ GuestBornWithToken'
  BY <1>2, <1>3, <1>4 DEF IInv, TypeOK, ReqShape, GuestBornWithToken, Stored
<1>6. GuestKept'
  BY <1>3, <1>4 DEF IInv, GuestKept, ReqShape
<1>7. PendingOwned'
  BY <1>3, <1>4 DEF IInv, PendingOwned, ReqShape
<1>8. RowsAge /\ NoRowCreated
  BY <1>2, <1>3 DEF RowsAge, NoRowCreated
<1>9. PriorApart' /\ BeforeApart'
  BY <1>2, <1>4, <1>8, ApartKept
<1> QED
  BY <1>5, <1>6, <1>7, <1>9 DEF IInv

\* The row of a transaction that is rolled back is nobody else's.
LEMMA CrashInv ==
    ASSUME IInv, NEW r \in Reqs, Crash(r) PROVE IInv'
<1>1. CASE req[r].guest # NoGuest /\ guests[req[r].guest].state = "pending"
  <2>1. PICK g \in GuestIds : g = req[r].guest
    BY <1>1 DEF IInv, ReqShape
  <2>2. /\ guests' = [guests EXCEPT ![g] = Blank] /\ guests[g].state = "pending"
        /\ Goto(r, req[r], "idle") /\ UNCHANGED <<tokened, prior>> /\ req[r] \in Request
    BY <1>1, <2>1 DEF Crash, RolledBack, IInv, TypeOK
  <2>3. Blank \in GuestRow /\ Blank.state = "unused"
    BY DEF Blank, GuestRow
  <2>4. /\ guests' \in [GuestIds -> GuestRow] /\ guests'[g].state = "unused"
        /\ \A h \in GuestIds \ {g} : guests'[h] = guests[h]
    BY <2>2, <2>3 DEF IInv, TypeOK
  <2>5. /\ req' \in [Reqs -> Request]
        /\ \A s \in Reqs \ {r} : req'[s] = req[s]
        /\ req'[r].pc = "idle" /\ req'[r].guest = NoGuest /\ req'[r].before = {}
    BY <2>2, GotoReq DEF IInv, Pcs
  <2>6. TypeOK' /\ ReqShape' /\ GuestBornWithToken'
    BY <2>2, <2>4, <2>5 DEF IInv, TypeOK, ReqShape, GuestBornWithToken, Stored
  <2>7. \A s \in Reqs \ {r} : req[s].guest # g
    BY <1>1, <2>1 DEF IInv, PendingOwned
  <2>8. GuestKept' /\ PendingOwned'
    BY <2>4, <2>5, <2>7 DEF IInv, GuestKept, PendingOwned, ReqShape
  <2>9. RowsAge /\ NoRowCreated
    BY <2>2, <2>4 DEF RowsAge, NoRowCreated
  <2>10. PriorApart' /\ BeforeApart'
    BY <2>2, <2>5, <2>9, ApartKept
  <2> QED
    BY <2>6, <2>8, <2>10 DEF IInv
<1>2. CASE ~(req[r].guest # NoGuest /\ guests[req[r].guest].state = "pending")
  BY <1>2, EndInv DEF Crash, RolledBack
<1> QED
  BY <1>1, <1>2

-----------------------------------------------------------------------------
\* The new row is nobody's yet, and no login has found it missing.
LEMMA CreateUserInv ==
    ASSUME IInv, NEW g \in GuestIds, CreateUser(g) PROVE IInv'
<1>1. PICK ip \in Ips \cup {NoIp}, n \in Names :
         guests' = [guests EXCEPT ![g] =
            [state |-> "stored", ip |-> ip, name |-> n, is_active |-> TRUE, by |-> "admin"]]
  BY DEF CreateUser
<1> DEFINE row == [state |-> "stored", ip |-> ip, name |-> n, is_active |-> TRUE,
                   by |-> "admin"]
<1>2. row \in GuestRow /\ row.state = "stored" /\ row.by = "admin"
  BY DEF GuestRow
<1>3. /\ guests[g].state = "unused" /\ UNCHANGED <<tokened, req>>
      /\ prior' = [prior EXCEPT ![g] = {}] /\ guests' = [guests EXCEPT ![g] = row]
  BY <1>1 DEF CreateUser
<1> HIDE DEF row
<1>4. /\ guests' \in [GuestIds -> GuestRow] /\ guests'[g] = row
      /\ \A h \in GuestIds \ {g} : guests'[h] = guests[h]
      /\ prior' \in [GuestIds -> SUBSET GuestIds] /\ prior'[g] = {}
      /\ \A h \in GuestIds \ {g} : prior'[h] = prior[h]
  BY <1>2, <1>3 DEF IInv, TypeOK
<1>5. TypeOK' /\ ReqShape'
  BY <1>3, <1>4 DEF IInv, TypeOK, ReqShape
<1>6. \A r \in Reqs : req[r].guest # NoGuest => req[r].guest \in GuestIds \ {g}
  BY <1>3 DEF IInv, GuestKept, ReqShape
<1>7. GuestKept' /\ PendingOwned'
  BY <1>3, <1>4, <1>6 DEF IInv, GuestKept, PendingOwned
<1>8. \A h \in GuestIds : guests[h].state # "unused" => guests'[h] = guests[h] /\ h # g
  BY <1>3, <1>4
<1>9. BeforeApart'
  BY <1>3, <1>8 DEF IInv, BeforeApart, TypeOK, Request
<1>10. PriorApart'
  <2> SUFFICES ASSUME NEW h \in GuestIds, NEW k \in prior'[h]
               PROVE  /\ guests'[k].state \in {"stored", "gone"}
                      /\ guests'[k].state = "stored" /\ guests'[h].state \in {"pending", "stored"} =>
                            guests'[k].ip # guests'[h].ip
    BY DEF PriorApart
  <2>1. h # g /\ k \in GuestIds /\ k \in prior[h] /\ guests'[h] = guests[h]
    BY <1>4
  <2> QED
    BY <1>8, <2>1 DEF IInv, PriorApart
<1>11. GuestBornWithToken'
  BY <1>2, <1>3, <1>4 DEF IInv, GuestBornWithToken, Stored
<1> QED
  BY <1>5, <1>7, <1>9, <1>10, <1>11 DEF IInv

LEMMA SetActiveInv ==
    ASSUME IInv, NEW g \in GuestIds, SetActive(g) PROVE IInv'
<1>1. guests' = [guests EXCEPT ![g].is_active = ~@] /\ UNCHANGED <<tokened, req, prior>>
  BY DEF SetActive
<1>2. /\ guests' \in [GuestIds -> GuestRow]
      /\ \A h \in GuestIds : /\ guests'[h].state = guests[h].state
                              /\ guests'[h].ip = guests[h].ip /\ guests'[h].by = guests[h].by
  BY <1>1 DEF IInv, TypeOK, GuestRow
<1>3. TypeOK' /\ ReqShape' /\ GuestBornWithToken'
  BY <1>1, <1>2 DEF IInv, TypeOK, ReqShape, GuestBornWithToken, Stored
<1>4. GuestKept' /\ PendingOwned'
  BY <1>1, <1>2 DEF IInv, GuestKept, PendingOwned, ReqShape
<1>5. RowsAge /\ NoRowCreated
  BY <1>2 DEF RowsAge, NoRowCreated
<1>6. PriorApart' /\ BeforeApart'
  BY <1>1, <1>5, ApartKept
<1> QED
  BY <1>3, <1>4, <1>6 DEF IInv

\* Nobody is about to issue a token for a guest who is deleted.
LEMMA DeleteGuestInv ==
    ASSUME IInv, NEW g \in GuestIds, DeleteGuest(g) PROVE IInv'
<1>1. /\ guests[g].state = "stored" /\ ~Locked(g) /\ UNCHANGED req
      /\ guests' = [guests EXCEPT ![g] = [Blank EXCEPT !.state = "gone"]]
      /\ tokened' = tokened \ {g}
      /\ prior' = [h \in GuestIds |-> IF h = g THEN {} ELSE prior[h] \ {g}]
  BY DEF DeleteGuest, Stored
<1>2. /\ [Blank EXCEPT !.state = "gone"] \in GuestRow
      /\ [Blank EXCEPT !.state = "gone"].state = "gone"
  BY DEF Blank, GuestRow
<1>3. /\ guests' \in [GuestIds -> GuestRow] /\ guests'[g].state = "gone"
      /\ \A h \in GuestIds \ {g} : guests'[h] = guests[h]
  BY <1>1, <1>2 DEF IInv, TypeOK
<1>4. /\ prior' \in [GuestIds -> SUBSET GuestIds]
      /\ \A h \in GuestIds : prior'[h] \subseteq prior[h]
  BY <1>1 DEF IInv, TypeOK
<1>5. TypeOK' /\ ReqShape' /\ GuestBornWithToken'
  BY <1>1, <1>3, <1>4 DEF IInv, TypeOK, ReqShape, GuestBornWithToken, Stored
<1>6. GuestKept' /\ PendingOwned'
  BY <1>1, <1>3 DEF IInv, GuestKept, PendingOwned, ReqShape, Locked
<1>7. RowsAge /\ NoRowCreated
  BY <1>1, <1>3 DEF RowsAge, NoRowCreated
<1>8. PriorApart' /\ BeforeApart'
  BY <1>1, <1>4, <1>7, ApartKept
<1> QED
  BY <1>5, <1>6, <1>8 DEF IInv

LEMMA NextInv == IInv /\ [Next]_vars => IInv'
<1> SUFFICES ASSUME IInv, [Next]_vars PROVE IInv'
  OBVIOUS
<1>1. CASE UNCHANGED vars
  BY <1>1 DEF vars, IInv, TypeOK, ReqShape, GuestKept, PendingOwned, BeforeApart, PriorApart,
              GuestBornWithToken, Stored
<1> QED
  BY <1>1, BeginInv, LookupInv, CreateInv, TouchInv, IssueInv, CrashInv, CreateUserInv,
     SetActiveInv, DeleteGuestInv DEF Next

\* IInv holds in every reachable state.
THEOREM Inductive == Spec => []IInv
BY InitInv, NextInv, PTL DEF Spec

\* Every variable has its type.
THEOREM TypeCorrect == Spec => []TypeOK
<1>1. IInv => TypeOK
  BY DEF IInv
<1> QED
  BY <1>1, Inductive, PTL

\* Whatever dies, is refused or is deleted meanwhile, a guest that a login made has a
\* token.
THEOREM GuestsHaveTokens == Spec => []GuestBornWithToken
<1>1. IInv => GuestBornWithToken
  BY DEF IInv
<1> QED
  BY <1>1, Inductive, PTL

\* No login makes a guest for an address that had a row when it looked.
THEOREM TwinsOverlap == Spec => []TwinsOverlapped
<1>1. IInv => TwinsOverlapped
  BY DEF IInv, PriorApart, TwinsOverlapped, Stored
<1> QED
  BY <1>1, Inductive, PTL
=============================================================================
