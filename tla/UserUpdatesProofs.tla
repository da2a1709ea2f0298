-------------------------- MODULE UserUpdatesProofs -------------------------
(* Safety of UserUpdates for every set of users, names, addresses, roles and  *)
(* requests, and any number of fields that a PATCH asks for.                  *)
EXTENDS UserUpdates, TLAPS

Steps == {"load", "insert", "commit", "find", "reload", "done", "failed"}

\* The fields that a start may repair.
Aims == {"roles", "is_active"}

\* What the program counter of a request says about its data.
Fits(q) ==
    /\ q.op = "none" <=> q.pc = "idle"
    /\ q.op = "patch" => q.pc \in {"load", "reload", "done"} \cup Fields
    /\ q.op = "start" => q.pc \in {"insert", "commit", "find", "reload", "done", "failed"} \cup Aims
    /\ q.op = "patch" \/ q.pc \in {"commit", "reload"} \cup Fields => q.user \in UserIds
    /\ q.pc \in Fields => q.asked[q.pc] # Absent
    /\ q.op = "start" /\ q.pc \in {"reload"} \cup Aims =>
          /\ q.due \subseteq {"is_active"}
          /\ q.asked.is_active = TRUE
          /\ q.pc = "roles" => q.asked.roles = AdminRoles

ReqShape == \A r \in Reqs : Fits(req[r])

\* The row that a start has inserted and not committed is as it was inserted,
\* and its own.
InsertedRow(u) ==
    /\ users[u].state = "pending" /\ users[u].username = AdminName
    /\ users[u].roles = AdminRoles /\ users[u].is_active = TRUE

PendingOwned ==
    /\ \A r \in Reqs : req[r].pc = "commit" => InsertedRow(req[r].user)
    /\ \A r, s \in Reqs :
          /\ req[r].pc = "commit" /\ req[s].pc = "commit" /\ req[r].user = req[s].user
          => r = s

\* The unique index on the name, for the superuser's: uncommitted rows count.
NameUnique ==
    \A u, v \in Stored \cup Pending :
        users[u].username = AdminName /\ users[v].username = AdminName => u = v

\* What a PATCH is done with has been seen, and so has a field that is passed
\* without a write because the session's copy holds its value.
PatchSound(q, marks) ==
    /\ \A f \in Fields \ (q.due \cup {q.pc}) : q.asked[f] # Absent => f \in marks
    /\ q.pc \in Fields /\ ~q.differs => q.pc \in marks

\* A start that nothing excuses has found the superuser, who is still there and
\* still the one it works on; what it is done with has been seen.
StartSound(q, marks) ==
    /\ q.pc \in {"find", "reload"} \cup Aims => "named" \in marks /\ Superusers # {}
    /\ q.pc \in {"reload"} \cup Aims =>
          /\ q.user \in Superusers
          /\ Aims \ (q.due \cup {q.pc}) \subseteq marks
          /\ q.pc \in Aims /\ ~q.differs => q.pc \in marks
    /\ q.pc = "done" => Aims \subseteq marks

Progress ==
    \A r \in Reqs :
        /\ req[r].op = "patch" => PatchSound(req[r], seen[r])
        /\ req[r].op = "start" => "excused" \in seen[r] \/ StartSound(req[r], seen[r])

IInv ==
    /\ TypeOK
    /\ ReqShape
    /\ PendingOwned
    /\ NameUnique
    /\ Progress

Pcs == {"idle"} \cup Steps \cup Fields

-----------------------------------------------------------------------------
LEMMA IdleRequest ==
    Idle \in Request /\ Idle.pc = "idle" /\ Idle.op = "none" /\ Idle.due = Fields
BY DEF Idle, Request, Nothing, Asked, Fields

\* A request goes on, and only that request moves.
LEMMA GotoReq ==
    ASSUME TypeOK, NEW r \in Reqs, NEW q \in Request, NEW pc \in Pcs, Goto(r, q, pc)
    PROVE  /\ req' \in [Reqs -> Request]
           /\ \A s \in Reqs \ {r} : req'[s] = req[s]
           /\ req'[r].pc = pc
           /\ pc = "idle" => req'[r].op = "none"
           /\ pc # "idle" => req'[r].op = q.op
           /\ pc # "idle" /\ ~(pc \in {"done", "failed"} /\ q.op = "start") =>
                 /\ req'[r].user = q.user /\ req'[r].asked = q.asked
                 /\ req'[r].due = q.due /\ req'[r].differs = q.differs
<1> DEFINE new == [q EXCEPT !.pc = pc]
           over == [Idle EXCEPT !.op = "start", !.pc = pc]
<1>1. /\ new \in Request /\ new.pc = pc /\ new.op = q.op /\ new.user = q.user
      /\ new.asked = q.asked /\ new.due = q.due /\ new.differs = q.differs
  BY DEF Request, Pcs, Steps
<1>2. over \in Request /\ over.pc = pc /\ over.op = "start"
  BY IdleRequest DEF Request, Pcs, Steps
<1>3. req' = [req EXCEPT ![r] = IF pc = "idle" THEN Idle
                                ELSE IF pc \in Over /\ q.op = "start" THEN over ELSE new]
  BY DEF Goto
<1> HIDE DEF new, over
<1>4. /\ req' \in [Reqs -> Request]
      /\ req'[r] = IF pc = "idle" THEN Idle
                   ELSE IF pc \in Over /\ q.op = "start" THEN over ELSE new
      /\ \A s \in Reqs \ {r} : req'[s] = req[s]
  BY <1>1, <1>2, <1>3, IdleRequest DEF TypeOK
<1> QED
  BY <1>1, <1>2, <1>4, IdleRequest DEF Over

LEMMA InitInv == Init => IInv
<1> SUFFICES ASSUME Init PROVE IInv
  OBVIOUS
<1>1. PICK name \in Names, roles \in RoleSets, active \in BOOLEAN :
         users = [u \in UserIds |->
                    IF u # FirstUser THEN Blank
                    ELSE [state |-> "stored", username |-> name, email |-> NoEmail,
                          roles |-> roles, is_active |-> active]]
  BY DEF Init
<1>2. Blank \in UserRow /\ Blank.state = "unused"
  BY ConstantsAssumption DEF Blank, UserRow
<1>3. [state |-> "stored", username |-> name, email |-> NoEmail,
       roles |-> roles, is_active |-> active] \in UserRow
  BY DEF UserRow
<1>4. TypeOK
  BY <1>1, <1>2, <1>3, IdleRequest DEF Init, TypeOK
<1>5. Stored \cup Pending \subseteq {FirstUser}
  BY <1>1, <1>2 DEF Stored, Pending
<1>6. NameUnique
  BY <1>5 DEF NameUnique
<1>7. \A r \in Reqs : req[r] = Idle
  BY DEF Init
<1>8. ReqShape /\ PendingOwned /\ Progress
  BY <1>7, IdleRequest DEF ReqShape, Fits, Fields, Aims, PendingOwned, Progress
<1> QED
  BY <1>4, <1>6, <1>8 DEF IInv

-----------------------------------------------------------------------------
(* The history.                                                               *)

LEMMA SeenTyped ==
    ASSUME Observe, seen \in [Reqs -> SUBSET Marks] PROVE seen' \in [Reqs -> SUBSET Marks]
<1>1. \A q : MarksOf(q)' \subseteq Marks
  BY DEF MarksOf, Marks, Fields
<1> QED
  BY <1>1 DEF Observe, Marks

\* What a request has seen, and sees now, it has seen after the step.
LEMMA ObserveSeen ==
    ASSUME Observe, seen \in [Reqs -> SUBSET Marks], NEW r \in Reqs
    PROVE  /\ req'[r].op = "patch" /\ req'[r].pc # "idle" =>
                 /\ seen[r] \subseteq seen'[r]
                 /\ \A f \in Fields : req'[r].user \in Stored' /\
                        users'[req'[r].user][f] = req'[r].asked[f] => f \in seen'[r]
           /\ req'[r].op = "start" /\ req'[r].pc # "idle" =>
                 \/ "excused" \in seen'[r]
                 \/ /\ "excused" \notin seen[r] /\ ~AddressTaken'
                    /\ "named" \in seen[r] => Superusers' # {}
                    /\ seen[r] \subseteq seen'[r]
                    /\ \A u \in Superusers' :
                          /\ "named" \in seen'[r]
                          /\ AdminRoles \subseteq users'[u].roles => "roles" \in seen'[r]
                          /\ users'[u].is_active => "is_active" \in seen'[r]
<1>3. ASSUME req'[r].pc # "idle", ~Excused(r) PROVE seen'[r] = seen[r] \cup MarksOf(req[r])'
  BY <1>3 DEF Observe
<1>4. ASSUME req'[r].op = "patch", req'[r].pc # "idle"
      PROVE  /\ seen[r] \subseteq seen'[r]
             /\ \A f \in Fields : req'[r].user \in Stored' /\
                    users'[req'[r].user][f] = req'[r].asked[f] => f \in seen'[r]
  BY <1>3, <1>4 DEF MarksOf, Excused
<1>5. ASSUME req'[r].op = "start", req'[r].pc # "idle", Excused(r)
      PROVE  "excused" \in seen'[r]
  BY <1>5 DEF Observe
<1>6. ASSUME req'[r].op = "start", req'[r].pc # "idle", ~Excused(r)
      PROVE  /\ "excused" \notin seen[r] /\ ~AddressTaken'
             /\ "named" \in seen[r] => Superusers' # {}
             /\ seen[r] \subseteq seen'[r]
             /\ \A u \in Superusers' :
                   /\ "named" \in seen'[r]
                   /\ AdminRoles \subseteq users'[u].roles => "roles" \in seen'[r]
                   /\ users'[u].is_active => "is_active" \in seen'[r]
  <2>1. /\ "excused" \notin seen[r] /\ ~AddressTaken'
        /\ "named" \in seen[r] => Superusers' # {}
    BY <1>6 DEF Excused
  <2>2. MarksOf(req[r])' =
          {x \in {"named", "roles", "is_active"} : \E u \in Superusers' :
             /\ x = "roles" => AdminRoles \subseteq users'[u].roles
             /\ x = "is_active" => users'[u].is_active}
    BY <1>6 DEF MarksOf
  <2> QED
    BY <1>3, <1>6, <2>1, <2>2
<1> QED
  BY <1>4, <1>5, <1>6

\* Progress of one request.
Sound(q, marks) ==
    /\ q.op = "patch" => PatchSound(q, marks)
    /\ q.op = "start" => "excused" \in marks \/ StartSound(q, marks)

\* Only one row changes.
OneRow == \E w : \A v \in UserIds \ {w} : users'[v] = users[v]

\* Whoever takes the superuser's name or row away leaves no superuser, because
\* two rows never have the name.
LEMMA SuperKept ==
    ASSUME NameUnique, OneRow, NEW u \in Superusers
    PROVE  u \in Superusers' \/ Superusers' = {}
<1>1. PICK w : \A v \in UserIds \ {w} : users'[v] = users[v]
  BY DEF OneRow
<1>2. u \in UserIds /\ users[u].state = "stored" /\ users[u].username = AdminName
  BY DEF Superusers, Stored
<1>3. ASSUME NEW v \in Superusers', u \notin Superusers' PROVE FALSE
  <2>1. v \in UserIds /\ users'[v].state = "stored" /\ users'[v].username = AdminName
    BY DEF Superusers, Stored
  <2>2. u = w
    BY <1>1, <1>2, <1>3 DEF Superusers, Stored
  <2>3. v # w
    BY <1>3, <2>2
  <2>4. v \in Stored /\ users[v].username = AdminName
    BY <1>1, <2>1, <2>3 DEF Stored
  <2> QED
    BY <1>2, <2>2, <2>3, <2>4 DEF NameUnique, Stored
<1> QED
  BY <1>3

\* A step of others leaves a request sound.
LEMMA OthersSound ==
    ASSUME IInv, Observe, OneRow, NEW s \in Reqs, req'[s] = req[s]
    PROVE  Sound(req[s], seen[s])'
<1>1. Fits(req[s]) /\ Sound(req[s], seen[s]) /\ NameUnique
  BY DEF IInv, ReqShape, Progress, Sound
<1>2. CASE req[s].op = "patch"
  <2>1. req'[s].pc # "idle" /\ seen[s] \subseteq seen'[s]
    BY <1>1, <1>2, ObserveSeen DEF Fits, Fields, IInv, TypeOK
  <2> QED
    BY <1>1, <1>2, <2>1 DEF Sound, PatchSound
<1>3. CASE req[s].op = "start" /\ "excused" \notin seen'[s]
  <2>1. /\ "excused" \notin seen[s] /\ seen[s] \subseteq seen'[s]
        /\ "named" \in seen[s] => Superusers' # {}
    <3>1. req'[s].pc # "idle"
      BY <1>1, <1>3 DEF Fits
    <3> QED
      BY <1>3, <3>1, ObserveSeen DEF IInv, TypeOK
  <2>2. StartSound(req[s], seen[s])
    BY <1>1, <1>3, <2>1 DEF Sound
  <2>3. req[s].pc \in {"reload"} \cup Aims => req[s].user \in Superusers'
    BY <1>1, <2>1, <2>2, SuperKept DEF StartSound
  <2> QED
    BY <1>3, <2>1, <2>2, <2>3 DEF Sound, StartSound
<1> QED
  BY <1>2, <1>3 DEF Sound

\* A step of a request that changes no row.
LEMMA MoveInv ==
    ASSUME IInv, NEW r \in Reqs, UNCHANGED users, Observe,
           req' \in [Reqs -> Request],
           \A s \in Reqs \ {r} : req'[s] = req[s],
           req'[r].pc # "commit", Fits(req[r])', Sound(req[r], seen[r])'
    PROVE  IInv'
<1>2. TypeOK'
  BY SeenTyped DEF IInv, TypeOK
<1>3. ReqShape'
  BY DEF IInv, ReqShape
<1>4. PendingOwned'
  BY DEF IInv, PendingOwned, InsertedRow
<1>5. NameUnique'
  BY DEF IInv, NameUnique, Stored, Pending
<1>6. OneRow
  BY DEF OneRow
<1>7. Progress'
  BY <1>6, OthersSound DEF Progress, Sound
<1> QED
  BY <1>2, <1>3, <1>4, <1>5, <1>7 DEF IInv

\* Where a request goes that is answered, dies, or has a statement that fails.
Gone(r) ==
    \/ Goto(r, req[r], "idle")
    \/ req[r].op = "start" /\ Goto(r, req[r], "failed")

\* It keeps nothing that needs care.
LEMMA GoneReq ==
    ASSUME IInv, NEW r \in Reqs, Gone(r)
    PROVE  /\ req' \in [Reqs -> Request] /\ \A s \in Reqs \ {r} : req'[s] = req[s]
           /\ req'[r].pc # "commit" /\ Fits(req[r])' /\ Sound(req[r], seen[r])'
<1>1. req[r] \in Request
  BY DEF IInv, TypeOK
<1>2. CASE Goto(r, req[r], "idle")
  <2>1. /\ req' \in [Reqs -> Request] /\ \A s \in Reqs \ {r} : req'[s] = req[s]
        /\ req'[r].pc = "idle" /\ req'[r].op = "none"
    BY <1>1, <1>2, GotoReq DEF IInv, Pcs
  <2> QED
    BY <2>1 DEF Fits, Sound, Fields, Aims
<1>3. CASE req[r].op = "start" /\ Goto(r, req[r], "failed")
  <2>1. /\ req' \in [Reqs -> Request] /\ \A s \in Reqs \ {r} : req'[s] = req[s]
        /\ req'[r].pc = "failed" /\ req'[r].op = "start"
    BY <1>1, <1>3, GotoReq DEF IInv, Pcs, Steps
  <2> QED
    BY <2>1 DEF Fits, Sound, StartSound, Fields, Aims
<1> QED
  BY <1>2, <1>3 DEF Gone

\* A request that ends so is sound.
LEMMA EndInv ==
    ASSUME IInv, NEW r \in Reqs, Gone(r), UNCHANGED users, Observe
    PROVE  IInv'
BY GoneReq, MoveInv

-----------------------------------------------------------------------------
(* The session has read the row.                                              *)

\* Where it goes on: every field that was due and is passed without a write has
\* the value that was asked for, or was not asked for.
LEMMA ProceedEffect ==
    ASSUME TypeOK, NEW r \in Reqs, NEW q \in Request, q.user \in UserIds, Proceed(r, q)
    PROVE  /\ req' \in [Reqs -> Request]
           /\ \A s \in Reqs \ {r} : req'[s] = req[s]
           /\ req'[r].op = q.op
           /\ req'[r].pc = "done" \/ req'[r].pc \in q.due
           /\ ~(req'[r].pc = "done" /\ q.op = "start") =>
                 req'[r].user = q.user /\ req'[r].asked = q.asked
           /\ \A f \in q.due \ {req'[r].pc} :
                 req'[r].pc = "done" \/ f \notin req'[r].due => ~IsOpen(q, f)
           /\ req'[r].pc # "done" =>
                 /\ IsOpen(q, req'[r].pc)
                 /\ req'[r].differs <=> users[q.user][req'[r].pc] # q.asked[req'[r].pc]
                 /\ req'[r].pc \in {"roles", "is_active"} => req'[r].due \subseteq {"is_active"}
<1> DEFINE open == {f \in q.due : IsOpen(q, f)}
<1>1. CASE open = {} /\ Goto(r, [q EXCEPT !.due = {}], "done")
  <2>1. PICK p \in Request : p = [q EXCEPT !.due = {}]
    BY DEF Request
  <2>2. p.op = q.op /\ p.user = q.user /\ p.asked = q.asked /\ Goto(r, p, "done")
    BY <1>1, <2>1 DEF Request
  <2>3. /\ req' \in [Reqs -> Request] /\ \A s \in Reqs \ {r} : req'[s] = req[s]
        /\ req'[r].pc = "done" /\ req'[r].op = q.op
        /\ q.op # "start" => req'[r].user = q.user /\ req'[r].asked = q.asked
    BY <2>2, GotoReq DEF Pcs, Steps
  <2> QED
    BY <1>1, <2>3
<1>2. ASSUME NEW f \in open, \A g \in open : Rank[f] <= Rank[g],
             Goto(r, [q EXCEPT !.due = {g \in Fields : Rank[g] > Rank[f]},
                               !.differs = users[q.user][f] # q.asked[f]], f)
      PROVE  /\ req' \in [Reqs -> Request]
             /\ \A s \in Reqs \ {r} : req'[s] = req[s]
             /\ req'[r].op = q.op
             /\ req'[r].pc = f
             /\ req'[r].user = q.user /\ req'[r].asked = q.asked
             /\ req'[r].due = {g \in Fields : Rank[g] > Rank[f]}
             /\ req'[r].differs <=> users[q.user][f] # q.asked[f]
  <2> DEFINE later == {g \in Fields : Rank[g] > Rank[f]}
             diff == users[q.user][f] # q.asked[f]
  <2>1. PICK d \in BOOLEAN : d = diff
    OBVIOUS
  <2>a. [q EXCEPT !.due = later, !.differs = d] \in Request
    BY DEF Request
  <2>2. PICK p \in Request : p = [q EXCEPT !.due = later, !.differs = d]
    BY <2>a
  <2>b. p = [q EXCEPT !.due = later, !.differs = diff]
    BY <2>1, <2>2, Zenon
  <2>c. Goto(r, p, f)
    BY <1>2, <2>b, Zenon
  <2>3. /\ p.op = q.op /\ p.user = q.user /\ p.asked = q.asked /\ p.due = later
        /\ p.differs = d
    BY <2>2 DEF Request
  <2>4. f \in Pcs /\ f # "idle" /\ f \notin {"done", "failed"}
    BY DEF Request, Pcs, Fields
  <2>5. /\ req' \in [Reqs -> Request]
        /\ \A s \in Reqs \ {r} : req'[s] = req[s]
        /\ req'[r].op = p.op /\ req'[r].pc = f
        /\ req'[r].user = p.user /\ req'[r].asked = p.asked
        /\ req'[r].due = p.due /\ req'[r].differs = p.differs
    <3> HIDE DEF open, later, diff
    <3> QED
      BY <2>4, <2>c, GotoReq
  <2>6. d <=> diff
    BY <2>1, Zenon
  <2>7. req'[r].due = later
    BY <2>3, <2>5
  <2>8. req'[r].differs <=> diff
    <3> HIDE DEF diff
    <3> QED
      BY <2>3, <2>5, <2>6
  <2> HIDE DEF open
  <2> QED
    BY <2>3, <2>5, <2>7, <2>8
<1>3. ASSUME NEW f \in Fields, NEW g \in Fields, ~(Rank[g] > Rank[f])
      PROVE  g = f \/ ~(Rank[f] <= Rank[g])
  BY <1>3 DEF Rank, Fields
<1>4. {g \in Fields : Rank[g] > Rank["roles"]} \cup {g \in Fields : Rank[g] > Rank["is_active"]}
        \subseteq {"is_active"}
  BY DEF Rank, Fields
<1>5. \A f \in open : f \in q.due /\ f \in Fields /\ IsOpen(q, f) /\ f # "done"
  BY DEF Request, Fields
<1>7. CASE \E f \in open :
             /\ \A g \in open : Rank[f] <= Rank[g]
             /\ Goto(r, [q EXCEPT !.due = {g \in Fields : Rank[g] > Rank[f]},
                                  !.differs = users[q.user][f] # q.asked[f]], f)
  <2>1. PICK f \in open :
             /\ \A g \in open : Rank[f] <= Rank[g]
             /\ Goto(r, [q EXCEPT !.due = {g \in Fields : Rank[g] > Rank[f]},
                                  !.differs = users[q.user][f] # q.asked[f]], f)
    BY <1>7
  <2>2. /\ req' \in [Reqs -> Request]
        /\ \A s \in Reqs \ {r} : req'[s] = req[s]
        /\ req'[r].op = q.op
        /\ req'[r].pc = f
        /\ req'[r].user = q.user /\ req'[r].asked = q.asked
        /\ req'[r].due = {g \in Fields : Rank[g] > Rank[f]}
        /\ req'[r].differs <=> users[q.user][f] # q.asked[f]
    BY <1>2, <2>1
  <2>3. f \in q.due /\ f \in Fields /\ IsOpen(q, f) /\ f # "done"
    BY <1>5, <2>1
  <2>4. ASSUME NEW g \in q.due \ {f}, g \notin req'[r].due
        PROVE  ~IsOpen(q, g)
    <3>0. g \in Fields
      BY DEF Request
    <3>1. g \notin open
      BY <1>3, <2>1, <2>2, <2>3, <2>4, <3>0
    <3> QED
      BY <2>4, <3>1
  <2>5. f \in {"roles", "is_active"} => req'[r].due \subseteq {"is_active"}
    BY <1>4, <2>2
  <2> HIDE DEF open
  <2> QED
    BY <2>2, <2>3, <2>4, <2>5
<1> QED
  BY <1>1, <1>7 DEF Proceed

\* A PATCH goes on soundly, when what it was done with before had been seen.
LEMMA ProceedPatch ==
    ASSUME IInv, NEW r \in Reqs, NEW q \in Request, Proceed(r, q),
           UNCHANGED users, Observe,
           q.op = "patch", q.user \in Stored,
           \A f \in Fields \ q.due : q.asked[f] # Absent => f \in seen[r]
    PROVE  IInv'
<1>1. q.user \in UserIds
  BY DEF Stored
<1>2. /\ req' \in [Reqs -> Request]
      /\ \A s \in Reqs \ {r} : req'[s] = req[s]
      /\ req'[r].op = "patch"
      /\ req'[r].pc = "done" \/ req'[r].pc \in q.due
      /\ req'[r].user = q.user /\ req'[r].asked = q.asked
      /\ \A f \in q.due \ {req'[r].pc} :
            req'[r].pc = "done" \/ f \notin req'[r].due => ~IsOpen(q, f)
      /\ req'[r].pc # "done" =>
            /\ IsOpen(q, req'[r].pc)
            /\ req'[r].differs <=> users[q.user][req'[r].pc] # q.asked[req'[r].pc]
  BY <1>1, ProceedEffect DEF IInv
<1>3. PICK p \in Request : p = req'[r]
  BY <1>2
<1>4. /\ p.op = "patch" /\ p.user = q.user /\ p.asked = q.asked
      /\ p.pc \in {"done"} \cup Fields /\ p.pc # "idle" /\ p.pc # "commit"
  BY <1>2, <1>3 DEF Request, Fields
<1>5. Fits(p)
  BY <1>1, <1>2, <1>3, <1>4 DEF Fits, IsOpen, Fields
<1>6. /\ seen[r] \subseteq seen'[r]
      /\ \A f \in Fields : users[q.user][f] = q.asked[f] => f \in seen'[r]
  BY <1>2, <1>3, <1>4, ObserveSeen DEF IInv, TypeOK, Stored
<1>7. ASSUME NEW f \in Fields \ (p.due \cup {p.pc}), p.asked[f] # Absent
      PROVE  f \in seen'[r]
  BY <1>2, <1>3, <1>4, <1>6, <1>7 DEF IsOpen
<1>8. p.pc \in Fields /\ ~p.differs => p.pc \in seen'[r]
  BY <1>2, <1>3, <1>4, <1>6 DEF Fields
<1>9. Sound(p, seen'[r])
  BY <1>4, <1>7, <1>8 DEF Sound, PatchSound
<1> QED
  BY <1>2, <1>3, <1>4, <1>5, <1>9, MoveInv DEF Fits, Sound, PatchSound

\* A start goes on soundly with the superuser it has found: the roles are not
\* asked for only if they have been seen.
LEMMA ProceedStart ==
    ASSUME IInv, NEW r \in Reqs, NEW q \in Request, Proceed(r, q),
           UNCHANGED users, Observe,
           q.op = "start", q.user \in UserIds, q.due \subseteq Aims, q.asked.is_active = TRUE,
           "roles" \in q.due => \/ q.asked.roles = AdminRoles
                                \/ q.asked.roles = Absent /\ (q.user \in Superusers =>
                                                     AdminRoles \subseteq users[q.user].roles),
           \/ "excused" \in seen[r]
           \/ q.user \in Superusers /\ Aims \ q.due \subseteq seen[r]
    PROVE  IInv'
<1>1. /\ req' \in [Reqs -> Request]
      /\ \A s \in Reqs \ {r} : req'[s] = req[s]
      /\ req'[r].op = "start"
      /\ req'[r].pc = "done" \/ req'[r].pc \in q.due
      /\ req'[r].pc # "done" => req'[r].user = q.user /\ req'[r].asked = q.asked
      /\ \A f \in q.due \ {req'[r].pc} :
            req'[r].pc = "done" \/ f \notin req'[r].due => ~IsOpen(q, f)
      /\ req'[r].pc # "done" =>
            /\ IsOpen(q, req'[r].pc)
            /\ req'[r].differs <=> users[q.user][req'[r].pc] # q.asked[req'[r].pc]
            /\ req'[r].pc \in {"roles", "is_active"} => req'[r].due \subseteq {"is_active"}
  BY ProceedEffect DEF IInv
<1>2. PICK p \in Request : p = req'[r]
  BY <1>1
<1>3. /\ p.op = "start" /\ p.pc \in {"done"} \cup (q.due \cap Aims)
      /\ p.pc \notin {"idle", "commit", "find", "reload"}
      /\ p.pc # "done" => p.user = q.user /\ p.asked = q.asked
  BY <1>1, <1>2 DEF Aims
<1>4. p.pc = "roles" => p.asked.roles = AdminRoles
  BY <1>1, <1>2, <1>3 DEF IsOpen, Aims
<1>5. Fits(p)
  BY <1>1, <1>2, <1>3, <1>4 DEF Fits, IsOpen, Fields, Aims
<1>6. ASSUME "excused" \notin seen'[r] PROVE StartSound(p, seen[r])'
  <2>1. /\ "excused" \notin seen[r] /\ seen[r] \subseteq seen'[r]
        /\ \A u \in Superusers' :
              /\ "named" \in seen'[r]
              /\ AdminRoles \subseteq users'[u].roles => "roles" \in seen'[r]
              /\ users'[u].is_active => "is_active" \in seen'[r]
    BY <1>1, <1>2, <1>3, <1>6, ObserveSeen DEF IInv, TypeOK
  <2>2. Superusers' = Superusers
    BY DEF Superusers, Stored
  <2>3. q.user \in Superusers /\ Aims \ q.due \subseteq seen[r]
    BY <2>1
  <2>4. ASSUME NEW f \in Aims \ {p.pc}, p.pc = "done" \/ f \notin p.due
        PROVE  f \in seen'[r]
    <3>1. CASE f \notin q.due
      BY <2>1, <2>3, <3>1
    <3>2. CASE f \in q.due /\ f = "roles"
      <4>1. q.asked.roles = Absent \/ AdminRoles \subseteq users[q.user].roles
        BY <1>1, <1>2, <2>4, <3>2 DEF IsOpen
      <4> QED
        BY <2>1, <2>2, <2>3, <3>2, <4>1, <1>1, <1>2, <2>4, ConstantsAssumption DEF IsOpen
    <3>3. CASE f \in q.due /\ f = "is_active"
      <4>1. ~IsOpen(q, f)
        BY <1>1, <1>2, <2>4, <3>3
      <4>2. users[q.user].is_active = TRUE
        BY <3>3, <4>1, ConstantsAssumption DEF IsOpen
      <4> QED
        BY <2>1, <2>2, <2>3, <3>3, <4>2
    <3> QED
      BY <3>1, <3>2, <3>3 DEF Aims
  <2>5. p.pc \in Aims /\ ~p.differs => p.pc \in seen'[r]
    <3>1. p.pc \in Aims /\ ~p.differs => users[q.user][p.pc] = q.asked[p.pc]
      BY <1>1, <1>2, <1>3 DEF Aims
    <3>2. CASE p.pc = "roles" /\ ~p.differs
      BY <1>3, <1>4, <2>1, <2>2, <2>3, <3>1, <3>2 DEF Aims
    <3>3. CASE p.pc = "is_active" /\ ~p.differs
      BY <2>1, <2>2, <2>3, <3>1, <3>3 DEF Aims
    <3> QED
      BY <3>2, <3>3 DEF Aims
  <2>6. q.user \in Superusers' /\ "named" \in seen'[r]
    BY <2>1, <2>2, <2>3
  <2>7. ASSUME p.pc \in Aims
        PROVE  /\ p.user \in Superusers'
               /\ Aims \ (p.due \cup {p.pc}) \subseteq seen'[r]
    BY <1>3, <2>4, <2>6, <2>7 DEF Aims
  <2>8. p.pc = "done" => Aims \subseteq seen'[r]
    BY <2>4 DEF Aims
  <2> QED
    BY <1>3, <2>5, <2>6, <2>7, <2>8 DEF StartSound
<1> QED
  BY <1>1, <1>2, <1>3, <1>5, <1>6, MoveInv DEF Sound, Fits

\* A start that something excuses may give up.
LEMMA GiveUpInv ==
    ASSUME IInv, NEW r \in Reqs, req[r].op = "start", Goto(r, req[r], "done"),
           UNCHANGED users, Observe, "excused" \in seen[r]
    PROVE  IInv'
<1>1. req[r] \in Request
  BY DEF IInv, TypeOK
<1>2. /\ req' \in [Reqs -> Request] /\ \A s \in Reqs \ {r} : req'[s] = req[s]
      /\ req'[r].pc = "done" /\ req'[r].op = "start"
  BY <1>1, GotoReq DEF IInv, Pcs, Steps
<1>3. "excused" \in seen'[r]
  BY <1>2, ObserveSeen DEF IInv, TypeOK
<1>4. Fits(req[r])' /\ Sound(req[r], seen[r])'
  BY <1>2, <1>3 DEF Fits, Sound, Fields, Aims
<1> QED
  BY <1>2, <1>4, MoveInv

\* A request whose row is gone, or that a unique index refuses, fails soundly.
LEMMA FailInv ==
    ASSUME IInv, NEW r \in Reqs, Fail(r), UNCHANGED users, Observe,
           req[r].op = "start" => "excused" \in seen[r]
    PROVE  IInv'
<1>1. CASE req[r].op = "start"
  BY <1>1, GiveUpInv DEF Fail
<1>2. CASE req[r].op # "start"
  BY <1>2, EndInv DEF Fail, Gone
<1> QED
  BY <1>1, <1>2

\* What the invariant says of a request that works on a row.
LEMMA AtWork ==
    ASSUME IInv, NEW r \in Reqs, req[r].pc \in {"load", "reload"} \cup Fields
    PROVE  /\ req[r].op \in {"patch", "start"} /\ Fits(req[r])
           /\ req[r].op = "patch" => PatchSound(req[r], seen[r])
           /\ req[r].op = "start" =>
                 /\ req[r].pc \in {"reload"} \cup Aims
                 /\ \/ "excused" \in seen[r]
                    \/ StartSound(req[r], seen[r]) /\ req[r].user \in Superusers
<1>1. req[r].op \in {"none", "patch", "start"} /\ Fits(req[r])
  BY DEF IInv, TypeOK, Request, ReqShape
<1>2. req[r].op # "none"
  BY <1>1 DEF Fits, Fields
<1>3. ASSUME req[r].op = "start" PROVE req[r].pc \in {"reload"} \cup Aims
  BY <1>1, <1>3 DEF Fits, Fields
<1> QED
  BY <1>1, <1>2, <1>3 DEF IInv, Progress, StartSound

-----------------------------------------------------------------------------
(* The actions of a request that change no row.                               *)

LEMMA BeginPatchInv == ASSUME IInv, NEW r \in Reqs, BeginPatch(r) PROVE IInv'
<1>1. PICK u \in Stored, asked \in Asked :
         Goto(r, [Idle EXCEPT !.op = "patch", !.user = u, !.asked = asked], "load")
  BY DEF BeginPatch
<1>2. [Idle EXCEPT !.op = "patch", !.user = u, !.asked = asked] \in Request
  BY IdleRequest DEF Request, Stored
<1>3. PICK q \in Request : q = [Idle EXCEPT !.op = "patch", !.user = u, !.asked = asked]
  BY <1>2
<1>4. q.op = "patch" /\ q.user = u /\ q.due = Fields /\ Goto(r, q, "load")
  BY <1>1, <1>3, IdleRequest DEF Request
<1>5. /\ req' \in [Reqs -> Request] /\ \A s \in Reqs \ {r} : req'[s] = req[s]
      /\ req'[r].pc = "load" /\ req'[r].op = "patch"
      /\ req'[r].user = u /\ req'[r].due = Fields
  BY <1>4, GotoReq DEF IInv, Pcs, Steps
<1>6. u \in UserIds
  BY DEF Stored
<1>7. Fits(req[r])' /\ Sound(req[r], seen[r])'
  BY <1>5, <1>6 DEF Fits, Sound, PatchSound, Fields, Aims
<1> QED
  BY <1>5, <1>7, MoveInv DEF BeginPatch

LEMMA LoadInv == ASSUME IInv, NEW r \in Reqs, Load(r) PROVE IInv'
<1>1. req[r].pc = "load" /\ UNCHANGED users /\ Observe
  BY DEF Load
<1>2. CASE req[r].user \in Stored /\ Proceed(r, req[r])
  <2>1. req[r] \in Request
    BY DEF IInv, TypeOK
  <2>2. /\ req[r].op = "patch"
        /\ \A f \in Fields \ req[r].due : req[r].asked[f] # Absent => f \in seen[r]
    BY <1>1, AtWork DEF PatchSound, Fields, Aims
  <2> QED
    BY <1>1, <1>2, <2>1, <2>2, ProceedPatch
<1>3. CASE Goto(r, req[r], "idle")
  BY <1>1, <1>3, EndInv DEF Gone
<1> QED
  BY <1>2, <1>3 DEF Load

LEMMA ReloadInv == ASSUME IInv, NEW r \in Reqs, Reload(r) PROVE IInv'
<1>1. req[r].pc = "reload" /\ UNCHANGED users /\ Observe
  BY DEF Reload
<1>2. CASE req[r].user \in Stored /\ Proceed(r, [req[r] EXCEPT !.differs = FALSE])
  <2>0. req[r] \in Request
    BY DEF IInv, TypeOK
  <2>1. [req[r] EXCEPT !.differs = FALSE] \in Request
    BY <2>0 DEF Request
  <2>2. PICK q \in Request : q = [req[r] EXCEPT !.differs = FALSE]
    BY <2>1
  <2>3. q.op = req[r].op /\ q.user = req[r].user /\ q.asked = req[r].asked /\ q.due = req[r].due
    BY <2>0, <2>2 DEF Request
  <2>4. Proceed(r, q)
    BY <1>2, <2>2
  <2>5. CASE req[r].op = "patch"
    <3>1. \A f \in Fields \ q.due : q.asked[f] # Absent => f \in seen[r]
      BY <1>1, <2>3, <2>5, AtWork DEF PatchSound, Fields
    <3> QED
      BY <1>1, <1>2, <2>3, <2>4, <2>5, <3>1, ProceedPatch
  <2>6. CASE req[r].op = "start"
    <3>1. q.user \in UserIds /\ q.due \subseteq {"is_active"} /\ q.asked.is_active = TRUE
      BY <1>1, <1>2, <2>3, <2>6, AtWork DEF Fits, Stored
    <3>2. \/ "excused" \in seen[r]
          \/ q.user \in Superusers /\ Aims \ q.due \subseteq seen[r]
      BY <1>1, <2>3, <2>6, AtWork DEF StartSound, Aims
    <3>3. q.op = "start" /\ q.due \subseteq Aims /\ "roles" \notin q.due
      BY <2>3, <2>6, <3>1 DEF Aims
    <3> QED
      BY <1>1, <2>4, <3>1, <3>2, <3>3, ProceedStart
  <2> QED
    BY <1>1, <2>5, <2>6, AtWork
<1>3. CASE Break(r)
  BY <1>1, <1>3, EndInv DEF Break, Gone
<1> QED
  BY <1>2, <1>3 DEF Reload

LEMMA BeginStartInv == ASSUME IInv, NEW r \in Reqs, BeginStart(r) PROVE IInv'
<1>1. [Idle EXCEPT !.op = "start"] \in Request
  BY IdleRequest DEF Request
<1>2. PICK q \in Request : q = [Idle EXCEPT !.op = "start"]
  BY <1>1
<1>3. q.op = "start" /\ Goto(r, q, "insert")
  BY <1>2, IdleRequest DEF BeginStart, Request
<1>4. /\ req' \in [Reqs -> Request] /\ \A s \in Reqs \ {r} : req'[s] = req[s]
      /\ req'[r].pc = "insert" /\ req'[r].op = "start"
  BY <1>3, GotoReq DEF IInv, Pcs, Steps
<1>5. Fits(req[r])' /\ Sound(req[r], seen[r])'
  BY <1>4 DEF Fits, Sound, StartSound, Fields, Aims
<1> QED
  BY <1>4, <1>5, MoveInv DEF BeginStart

LEMMA FindInv == ASSUME IInv, NEW r \in Reqs, Find(r) PROVE IInv'
<1>1. req[r].pc = "find" /\ UNCHANGED users /\ Observe
  BY DEF Find
<1>2. /\ req[r] \in Request /\ req[r].op = "start"
      /\ "excused" \in seen[r] \/ Superusers # {}
  <2>1. req[r] \in Request /\ Fits(req[r])
    BY DEF IInv, TypeOK, ReqShape
  <2>2. req[r].op = "start"
    BY <1>1, <2>1 DEF Fits, Request, Fields
  <2> QED
    BY <1>1, <2>1, <2>2 DEF IInv, Progress, StartSound
<1>3. CASE Superusers = {} /\ Goto(r, req[r], "done")
  BY <1>1, <1>2, <1>3, GiveUpInv
<1>4. ASSUME NEW u \in Superusers, NEW roles, roles = (IF AdminRoles \subseteq users[u].roles
                                                       THEN Absent ELSE AdminRoles),
             Proceed(r, [req[r] EXCEPT !.user = u, !.due = {"roles", "is_active"},
                           !.asked = [Nothing EXCEPT !.is_active = TRUE, !.roles = roles]])
      PROVE  IInv'
  <2>1. u \in UserIds
    BY DEF Superusers, Stored
  <2>2. roles \in RoleSets \cup {Absent}
    BY <1>4, ConstantsAssumption
  <2>3. PICK asked \in Asked : asked = [Nothing EXCEPT !.is_active = TRUE, !.roles = roles]
    <3>1. [Nothing EXCEPT !.is_active = TRUE, !.roles = roles] \in Asked
      BY <2>2 DEF Nothing, Asked, Fields
    <3> QED
      BY <3>1
  <2>4. asked.is_active = TRUE /\ asked.roles = roles
    BY <2>3 DEF Nothing, Fields
  <2>5. PICK q \in Request : q = [req[r] EXCEPT !.user = u, !.due = {"roles", "is_active"},
                                                !.asked = asked]
    <3>1. [req[r] EXCEPT !.user = u, !.due = {"roles", "is_active"}, !.asked = asked] \in Request
      BY <1>2, <2>1 DEF Request, Fields
    <3> QED
      BY <3>1
  <2>6. q.op = "start" /\ q.user = u /\ q.due = Aims /\ q.asked = asked
    BY <1>2, <2>5 DEF Request, Aims
  <2>7. Proceed(r, q)
    BY <1>4, <2>3, <2>5
  <2> QED
    BY <1>1, <1>4, <2>1, <2>4, <2>6, <2>7, ProceedStart
<1> QED
  BY <1>3, <1>4 DEF Find

LEMMA ReturnInv == ASSUME IInv, NEW r \in Reqs, Return(r) PROVE IInv'
BY EndInv DEF Return, Gone

-----------------------------------------------------------------------------
(* The actions that change a row.                                             *)

\* The rows that others have inserted and not committed.
LEMMA RowStepInv ==
    ASSUME IInv, NEW r \in Reqs, Observe, OneRow, NameUnique', PendingOwned',
           users' \in [UserIds -> UserRow], req' \in [Reqs -> Request],
           \A s \in Reqs \ {r} : req'[s] = req[s],
           Fits(req[r])', Sound(req[r], seen[r])'
    PROVE  IInv'
<1>1. TypeOK'
  BY SeenTyped DEF IInv, TypeOK
<1>2. ReqShape'
  BY DEF IInv, ReqShape
<1>3. Progress'
  BY OthersSound DEF Progress, Sound
<1> QED
  BY <1>1, <1>2, <1>3 DEF IInv

\* A row that no request has pending changes, and no request moves.
LEMMA ElsewhereInv ==
    ASSUME IInv, UNCHANGED req, Observe, NameUnique', users' \in [UserIds -> UserRow],
           NEW w \in UserIds, users[w].state # "pending",
           \A v \in UserIds \ {w} : users'[v] = users[v]
    PROVE  IInv'
<1>1. TypeOK'
  BY SeenTyped DEF IInv, TypeOK
<1>2. ReqShape'
  BY DEF IInv, ReqShape
<1>3. PendingOwned'
  <2>1. ASSUME NEW s \in Reqs, req[s].pc = "commit" PROVE InsertedRow(req[s].user)'
    <3>1. InsertedRow(req[s].user) /\ req[s].user \in UserIds
      BY <2>1 DEF IInv, PendingOwned, ReqShape, Fits
    <3>2. users'[req[s].user] = users[req[s].user]
      BY <3>1 DEF InsertedRow
    <3> QED
      BY <3>1, <3>2 DEF InsertedRow
  <2> QED
    BY <2>1 DEF IInv, PendingOwned
<1>4. OneRow
  BY DEF OneRow
<1>5. Progress'
  BY <1>4, OthersSound DEF Progress, Sound
<1> QED
  BY <1>1, <1>2, <1>3, <1>5 DEF IInv

\* One field of a stored row gets a value, which no other row has if the field
\* is the name.
LEMMA FieldWritten ==
    ASSUME IInv, NEW u \in Stored, NEW f \in Fields, NEW value \in Values[f],
           f = "username" => \A v \in (Pending \cup Stored) \ {u} : users[v].username # value,
           users' = [users EXCEPT ![u][f] = value]
    PROVE  /\ users' \in [UserIds -> UserRow]
           /\ u \in UserIds /\ u \in Stored' /\ users'[u][f] = value
           /\ \A g \in Fields \ {f} : users'[u][g] = users[u][g]
           /\ \A v \in UserIds \ {u} : users'[v] = users[v]
           /\ NameUnique'
<1>1. u \in UserIds /\ users[u] \in UserRow /\ users[u].state = "stored"
  BY DEF Stored, IInv, TypeOK
<1>2. PICK row \in UserRow : row = users[u]
  BY <1>1
<1>3. /\ [row EXCEPT ![f] = value] \in UserRow
      /\ [row EXCEPT ![f] = value].state = "stored"
      /\ [row EXCEPT ![f] = value][f] = value
      /\ \A g \in Fields \ {f} : [row EXCEPT ![f] = value][g] = row[g]
  <2>1. CASE f = "username"
    BY <1>1, <1>2, <2>1 DEF UserRow, Fields, Values
  <2>2. CASE f = "email"
    BY <1>1, <1>2, <2>2 DEF UserRow, Fields, Values
  <2>3. CASE f = "roles"
    BY <1>1, <1>2, <2>3 DEF UserRow, Fields, Values
  <2>4. CASE f = "is_active"
    BY <1>1, <1>2, <2>4 DEF UserRow, Fields, Values
  <2> QED
    BY <2>1, <2>2, <2>3, <2>4 DEF Fields
<1>4. PICK new \in UserRow : new = [row EXCEPT ![f] = value]
  BY <1>3
<1>5. users' = [users EXCEPT ![u] = new]
  BY <1>1, <1>2, <1>4 DEF IInv, TypeOK
<1>6. /\ users' \in [UserIds -> UserRow] /\ users'[u] = new
      /\ \A v \in UserIds \ {u} : users'[v] = users[v]
  BY <1>1, <1>5 DEF IInv, TypeOK
<1>7. Stored' = Stored /\ Pending' = Pending
  BY <1>1, <1>3, <1>4, <1>6 DEF Stored, Pending
<1>8. \A v \in UserIds : users'[v].username = users[v].username \/ (v = u /\ f = "username")
  BY <1>2, <1>3, <1>4, <1>6 DEF Fields
<1>9. NameUnique'
  <2> SUFFICES ASSUME NEW v \in Stored \cup Pending, NEW w \in Stored \cup Pending,
                      users'[v].username = AdminName, users'[w].username = AdminName
               PROVE  v = w
    BY <1>7 DEF NameUnique
  <2>1. v \in UserIds /\ w \in UserIds
    BY DEF Stored, Pending
  <2>2. CASE f # "username"
    BY <1>8, <2>1, <2>2 DEF IInv, NameUnique
  <2>3. CASE f = "username" /\ v # u /\ w # u
    BY <1>8, <2>1, <2>3 DEF IInv, NameUnique
  <2>4. CASE f = "username" /\ (v = u \/ w = u)
    <3>1. users'[u].username = value
      BY <1>3, <1>4, <1>6, <2>4
    <3> QED
      BY <1>6, <2>1, <2>4, <3>1
  <2> QED
    BY <2>2, <2>3, <2>4
<1> QED
  BY <1>1, <1>2, <1>3, <1>4, <1>6, <1>7, <1>9

\* Rows that are pending in others' sessions stay when the row that changes is
\* not one of them.
LEMMA OthersPending ==
    ASSUME IInv, NEW r \in Reqs, NEW w \in UserIds,
           \A v \in UserIds \ {w} : users'[v] = users[v],
           \A s \in Reqs \ {r} : req'[s] = req[s],
           \A s \in Reqs \ {r} : req[s].pc = "commit" => req[s].user # w,
           req'[r].pc # "commit"
    PROVE  PendingOwned'
<1>1. ASSUME NEW s \in Reqs, req'[s].pc = "commit" PROVE InsertedRow(req[s].user)'
  <2>1. s # r /\ req'[s] = req[s]
    BY <1>1
  <2>2. InsertedRow(req[s].user) /\ req[s].user \in UserIds /\ req[s].user # w
    BY <1>1, <2>1 DEF IInv, PendingOwned, ReqShape, Fits
  <2>3. users'[req[s].user] = users[req[s].user]
    BY <2>2
  <2> QED
    BY <2>1, <2>2, <2>3 DEF InsertedRow
<1>2. ASSUME NEW s \in Reqs, NEW t \in Reqs, req'[s].pc = "commit", req'[t].pc = "commit",
             req'[s].user = req'[t].user
      PROVE  s = t
  BY <1>2 DEF IInv, PendingOwned
<1> QED
  BY <1>1, <1>2 DEF PendingOwned

LEMMA InsertInv == ASSUME IInv, NEW r \in Reqs, Insert(r) PROVE IInv'
<1>1. req[r].pc = "insert" /\ Observe /\ Clashing(Pending, NoUser, AdminName, AdminEmail) = {}
  BY DEF Insert
<1>2. req[r] \in Request /\ req[r].op = "start"
  <2>1. req[r] \in Request /\ Fits(req[r])
    BY DEF IInv, TypeOK, ReqShape
  <2> QED
    BY <1>1, <2>1 DEF Fits, Request, Fields
<1>3. CASE /\ Clashing(Stored, NoUser, AdminName, AdminEmail) # {}
           /\ Goto(r, req[r], "find") /\ UNCHANGED users
  <2>1. /\ req' \in [Reqs -> Request] /\ \A s \in Reqs \ {r} : req'[s] = req[s]
        /\ req'[r].pc = "find" /\ req'[r].op = "start"
    BY <1>2, <1>3, GotoReq DEF IInv, Pcs, Steps
  <2>2. ASSUME "excused" \notin seen'[r] PROVE "named" \in seen'[r] /\ Superusers' # {}
    <3>1. ~AddressTaken' /\ \A u \in Superusers' : "named" \in seen'[r]
      BY <1>1, <2>1, <2>2, ObserveSeen DEF IInv, TypeOK
    <3>2. PICK v \in Stored : users[v].username = AdminName \/ users[v].email = AdminEmail
      BY <1>3 DEF Clashing
    <3>3. v \in Superusers
      BY <1>3, <3>1, <3>2 DEF AddressTaken, Superusers, Stored
    <3>4. Superusers' = Superusers
      BY <1>3 DEF Superusers, Stored
    <3> QED
      BY <3>1, <3>3, <3>4
  <2>3. Fits(req[r])' /\ Sound(req[r], seen[r])'
    BY <2>1, <2>2 DEF Fits, Sound, StartSound, Fields, Aims
  <2> QED
    BY <1>1, <1>3, <2>1, <2>3, MoveInv
<1>4. ASSUME Clashing(Stored, NoUser, AdminName, AdminEmail) = {},
             NEW u \in UserIds, users[u].state = "unused",
             users' = [users EXCEPT ![u] =
                         [state |-> "pending", username |-> AdminName, email |-> AdminEmail,
                          roles |-> AdminRoles, is_active |-> TRUE]],
             Goto(r, [req[r] EXCEPT !.user = u], "commit")
      PROVE  IInv'
  <2>1. PICK q \in Request : q = [req[r] EXCEPT !.user = u]
    <3>1. [req[r] EXCEPT !.user = u] \in Request
      BY <1>2 DEF Request
    <3> QED
      BY <3>1
  <2>2. q.op = "start" /\ q.user = u /\ Goto(r, q, "commit")
    BY <1>2, <1>4, <2>1 DEF Request
  <2>3. /\ req' \in [Reqs -> Request] /\ \A s \in Reqs \ {r} : req'[s] = req[s]
        /\ req'[r].pc = "commit" /\ req'[r].op = "start" /\ req'[r].user = u
    BY <2>2, GotoReq DEF IInv, Pcs, Steps
  <2>4. PICK row \in UserRow :
           row = [state |-> "pending", username |-> AdminName, email |-> AdminEmail,
                  roles |-> AdminRoles, is_active |-> TRUE]
    BY ConstantsAssumption DEF UserRow
  <2>5. /\ users' \in [UserIds -> UserRow] /\ users'[u] = row
        /\ \A v \in UserIds \ {u} : users'[v] = users[v]
    BY <1>4, <2>4 DEF IInv, TypeOK
  <2>6. OneRow
    BY <2>5 DEF OneRow
  <2>7. \A v \in Stored \cup Pending : users[v].username # AdminName
    BY <1>1, <1>4, ConstantsAssumption DEF Clashing, Stored, Pending
  <2>8. NameUnique'
    <3>1. \A v \in (Stored \cup Pending)' : v = u \/ v \in Stored \cup Pending
      BY <2>5 DEF Stored, Pending
    <3>2. \A v \in (Stored \cup Pending)' : users'[v].username = AdminName => v = u
      BY <2>5, <2>7, <3>1 DEF Stored, Pending
    <3> QED
      BY <3>2 DEF NameUnique
  <2>9. PendingOwned'
    <3>1. \A s \in Reqs : req[s].pc = "commit" => req[s].user \in UserIds /\ req[s].user # u
                                                  /\ InsertedRow(req[s].user)
      BY <1>4 DEF IInv, PendingOwned, InsertedRow, ReqShape, Fits
    <3>2. ASSUME NEW s \in Reqs, req'[s].pc = "commit" PROVE InsertedRow(req[s].user)'
      <4>1. CASE s = r
        BY <2>3, <2>4, <2>5, <4>1 DEF InsertedRow
      <4>2. CASE s # r
        <5>1. req'[s] = req[s] /\ users'[req[s].user] = users[req[s].user]
          BY <2>3, <2>5, <3>1, <3>2, <4>2
        <5> QED
          BY <3>1, <3>2, <5>1 DEF InsertedRow
      <4> QED
        BY <4>1, <4>2
    <3>3. ASSUME NEW s \in Reqs, NEW t \in Reqs, req'[s].pc = "commit", req'[t].pc = "commit",
                 req'[s].user = req'[t].user
          PROVE  s = t
      BY <2>3, <3>1, <3>3 DEF IInv, PendingOwned
    <3> QED
      BY <3>2, <3>3 DEF PendingOwned
  <2>10. Fits(req[r])' /\ Sound(req[r], seen[r])'
    BY <2>3 DEF Fits, Sound, StartSound, Fields, Aims
  <2> QED
    BY <1>1, <2>3, <2>5, <2>6, <2>8, <2>9, <2>10, RowStepInv
<1> QED
  BY <1>1, <1>3, <1>4 DEF Insert

LEMMA CommitInv == ASSUME IInv, NEW r \in Reqs, Commit(r) PROVE IInv'
<1>1. req[r].pc = "commit" /\ Observe
  BY DEF Commit
<1>0. PICK pc \in Over : Goto(r, req[r], pc)
  BY DEF Commit
<1>2. PICK u \in UserIds : u = req[r].user
  BY <1>1 DEF IInv, ReqShape, Fits
<1>3. req[r] \in Request /\ req[r].op = "start"
  <2>1. req[r] \in Request /\ Fits(req[r])
    BY DEF IInv, TypeOK, ReqShape
  <2> QED
    BY <1>1, <2>1 DEF Fits, Request, Fields
<1>4. InsertedRow(u) /\ users[u] \in UserRow
  BY <1>1, <1>2 DEF IInv, TypeOK, PendingOwned
<1>5. /\ req' \in [Reqs -> Request] /\ \A s \in Reqs \ {r} : req'[s] = req[s]
      /\ req'[r].pc \in Over /\ req'[r].op = "start"
  BY <1>0, <1>3, GotoReq DEF IInv, Pcs, Steps, Over
<1>6. /\ users' \in [UserIds -> UserRow]
      /\ users'[u].state = "stored" /\ users'[u].username = AdminName
      /\ users'[u].roles = AdminRoles /\ users'[u].is_active = TRUE
      /\ \A v \in UserIds \ {u} : users'[v] = users[v]
  <2>1. PICK row \in UserRow : row = [users[u] EXCEPT !.state = "stored"]
    <3>1. [users[u] EXCEPT !.state = "stored"] \in UserRow
      BY <1>4 DEF UserRow
    <3> QED
      BY <3>1
  <2>2. /\ row.state = "stored" /\ row.username = AdminName
        /\ row.roles = AdminRoles /\ row.is_active = TRUE
    BY <1>4, <2>1 DEF UserRow, InsertedRow
  <2>3. users' = [users EXCEPT ![u] = row]
    BY <1>2, <2>1 DEF Commit, IInv, TypeOK
  <2> QED
    BY <2>2, <2>3 DEF IInv, TypeOK
<1>7. OneRow
  BY <1>6 DEF OneRow
<1>8. NameUnique'
  <2>1. \A v \in (Stored \cup Pending)' :
           /\ v \in Stored \cup Pending
           /\ users'[v].username = AdminName => users[v].username = AdminName
    BY <1>4, <1>6 DEF Stored, Pending, InsertedRow
  <2> QED
    BY <2>1 DEF IInv, NameUnique
<1>9. PendingOwned'
  <2>1. \A s \in Reqs \ {r} : req[s].pc = "commit" => req[s].user # u
    BY <1>1, <1>2 DEF IInv, PendingOwned
  <2> QED
    BY <1>5, <1>6, <2>1, OthersPending DEF Over
<1>10. Fits(req[r])' /\ Sound(req[r], seen[r])'
  <2>1. u \in Superusers'
    BY <1>6 DEF Superusers, Stored
  <2>2. ASSUME "excused" \notin seen'[r] PROVE Aims \subseteq seen'[r]
    <3>1. \A v \in Superusers' :
              /\ AdminRoles \subseteq users'[v].roles => "roles" \in seen'[r]
              /\ users'[v].is_active => "is_active" \in seen'[r]
      BY <1>1, <1>5, <2>2, ObserveSeen DEF IInv, TypeOK, Over
    <3> QED
      BY <1>6, <2>1, <3>1 DEF Aims
  <2> QED
    BY <1>5, <2>2 DEF Fits, Sound, StartSound, Fields, Aims, Over
<1> QED
  BY <1>1, <1>5, <1>6, <1>7, <1>8, <1>9, <1>10, RowStepInv

LEMMA WriteInv == ASSUME IInv, NEW r \in Reqs, Write(r) PROVE IInv'
<1> DEFINE u == req[r].user
           f == req[r].pc
<1>1. /\ f \in Fields /\ Holding(Pending, req[r], f) = {} /\ Observe
      /\ req[r] \in Request
  BY DEF Write, IInv, TypeOK
<1>2. /\ req[r].op \in {"patch", "start"} /\ Fits(req[r])
      /\ req[r].op = "patch" => PatchSound(req[r], seen[r])
      /\ req[r].op = "start" =>
            /\ f \in Aims
            /\ \/ "excused" \in seen[r]
               \/ StartSound(req[r], seen[r]) /\ u \in Superusers
  BY <1>1, AtWork DEF Fields
<1>3. CASE u \notin Stored /\ Fail(r) /\ UNCHANGED users
  BY <1>1, <1>2, <1>3, FailInv DEF Superusers
<1>4. CASE Holding(Stored, req[r], f) # {} /\ Fail(r) /\ UNCHANGED users
  <2>1. f \notin Aims
    BY <1>4 DEF Holding, Aims
  <2> QED
    BY <1>1, <1>2, <1>4, <2>1, FailInv
<1>5. ASSUME u \in Stored, Holding(Stored, req[r], f) = {}, Goto(r, req[r], "reload"),
             users' = IF req[r].differs THEN [users EXCEPT ![u][f] = req[r].asked[f]]
                                        ELSE users
      PROVE  IInv'
  <2>1. /\ req' \in [Reqs -> Request] /\ \A s \in Reqs \ {r} : req'[s] = req[s]
        /\ req'[r].pc = "reload" /\ req'[r].op = req[r].op /\ req'[r].user = u
        /\ req'[r].asked = req[r].asked /\ req'[r].due = req[r].due
    BY <1>1, <1>2, <1>5, GotoReq DEF IInv, Pcs, Steps
  <2>2. /\ users' \in [UserIds -> UserRow]
        /\ u \in UserIds /\ u \in Stored'
        /\ req[r].differs => users'[u][f] = req[r].asked[f]
        /\ \A g \in Fields \ {f} : users'[u][g] = users[u][g]
        /\ \A v \in UserIds \ {u} : users'[v] = users[v]
        /\ NameUnique'
    <3>1. CASE req[r].differs
      <4>1. req[r].asked[f] # Absent
        BY <1>1, <1>2 DEF Fits
      <4>2. req[r].asked[f] \in Values[f]
        BY <1>1, <4>1 DEF Request, Asked, Fields, Values
      <4>3. f = "username" =>
               \A v \in (Pending \cup Stored) \ {u} : users[v].username # req[r].asked[f]
        BY <1>1, <1>5 DEF Holding
      <4>4. PICK w \in Stored, g \in Fields, value \in Values[f] :
               w = u /\ g = f /\ value = req[r].asked[f]
        BY <1>1, <1>5, <4>2
      <4>5. users' = [users EXCEPT ![w][g] = value]
        BY <1>5, <3>1, <4>4
      <4>6. g = "username" => \A v \in (Pending \cup Stored) \ {w} : users[v].username # value
        BY <4>3, <4>4
      <4>7. value \in Values[g]
        BY <4>4
      <4>8. /\ users' \in [UserIds -> UserRow]
            /\ w \in UserIds /\ w \in Stored' /\ users'[w][g] = value
            /\ \A h \in Fields \ {g} : users'[w][h] = users[w][h]
            /\ \A v \in UserIds \ {w} : users'[v] = users[v]
            /\ NameUnique'
        BY <4>5, <4>6, <4>7, FieldWritten
      <4> QED
        BY <4>4, <4>8
    <3>2. CASE ~req[r].differs
      BY <1>5, <3>2 DEF IInv, TypeOK, NameUnique, Stored, Pending
    <3> QED
      BY <3>1, <3>2
  <2>3. OneRow
    BY <2>2 DEF OneRow
  <2>4. PendingOwned'
    <3>1. \A s \in Reqs \ {r} : req[s].pc = "commit" => req[s].user # u
      BY <1>5 DEF IInv, PendingOwned, InsertedRow, Stored
    <3> QED
      BY <2>1, <2>2, <3>1, OthersPending
  <2>5. Fits(req[r])'
    BY <1>1, <1>2, <2>1, <2>2 DEF Fits, Fields, Aims
  <2>6. CASE req[r].op = "patch"
    <3>1. /\ seen[r] \subseteq seen'[r]
          /\ users'[u][f] = req[r].asked[f] => f \in seen'[r]
      BY <1>1, <2>1, <2>2, <2>6, ObserveSeen DEF IInv, TypeOK
    <3>2. f \in seen'[r]
      BY <1>1, <1>2, <2>2, <2>6, <3>1 DEF PatchSound
    <3>3. ASSUME NEW g \in Fields \ req[r].due, req[r].asked[g] # Absent PROVE g \in seen'[r]
      BY <1>2, <2>6, <3>1, <3>2, <3>3 DEF PatchSound
    <3>4. Sound(req[r], seen[r])'
      BY <2>1, <2>6, <3>3 DEF Sound, PatchSound, Fields
    <3> QED
      BY <1>1, <2>1, <2>2, <2>3, <2>4, <2>5, <3>4, RowStepInv
  <2>7. CASE req[r].op = "start"
    <3>1. ASSUME "excused" \notin seen'[r] PROVE StartSound(req[r], seen[r])'
      <4>1. /\ "excused" \notin seen[r] /\ seen[r] \subseteq seen'[r]
            /\ \A v \in Superusers' :
                  /\ "named" \in seen'[r]
                  /\ AdminRoles \subseteq users'[v].roles => "roles" \in seen'[r]
                  /\ users'[v].is_active => "is_active" \in seen'[r]
        BY <1>1, <2>1, <2>7, <3>1, ObserveSeen DEF IInv, TypeOK
      <4>2. StartSound(req[r], seen[r]) /\ u \in Superusers /\ f \in Aims
        BY <1>2, <2>7, <4>1
      <4>3. u \in Superusers'
        BY <2>2, <4>2 DEF Superusers, Fields, Aims
      <4>4. f \in seen'[r]
        <5>1. CASE req[r].differs /\ f = "roles"
          BY <1>2, <2>2, <2>7, <4>1, <4>3, <5>1 DEF Fits, Aims
        <5>2. CASE req[r].differs /\ f = "is_active"
          BY <1>2, <2>2, <2>7, <4>1, <4>3, <5>2 DEF Fits, Aims
        <5>3. CASE ~req[r].differs
          BY <4>1, <4>2, <5>3 DEF StartSound
        <5> QED
          BY <4>2, <5>1, <5>2, <5>3 DEF Aims
      <4>5. Aims \ req[r].due \subseteq seen'[r]
        BY <4>1, <4>2, <4>4 DEF StartSound
      <4> QED
        BY <2>1, <4>1, <4>3, <4>5 DEF StartSound, Aims
    <3>2. Sound(req[r], seen[r])'
      BY <2>1, <2>7, <3>1 DEF Sound
    <3> QED
      BY <1>1, <2>1, <2>2, <2>3, <2>4, <2>5, <3>2, RowStepInv
  <2> QED
    BY <1>2, <2>6, <2>7
<1> QED
  BY <1>3, <1>4, <1>5 DEF Write

\* The uncommitted row of a request that dies or fails is its own.
LEMMA RolledBackInv ==
    ASSUME IInv, NEW r \in Reqs, Gone(r), users' = RolledBack(r), Observe PROVE IInv'
<1>2. CASE req[r].pc # "commit"
  BY <1>2, EndInv DEF RolledBack
<1>3. CASE req[r].pc = "commit"
  <2>1. PICK u \in UserIds : u = req[r].user
    BY <1>3 DEF IInv, ReqShape, Fits
  <2>2. users[u].state = "pending"
    BY <1>3, <2>1 DEF IInv, PendingOwned, InsertedRow
  <2>3. /\ req' \in [Reqs -> Request] /\ \A s \in Reqs \ {r} : req'[s] = req[s]
        /\ req'[r].pc # "commit" /\ Fits(req[r])' /\ Sound(req[r], seen[r])'
    BY GoneReq
  <2>4. Blank \in UserRow /\ Blank.state = "unused"
    BY ConstantsAssumption DEF Blank, UserRow
  <2>5. /\ users' \in [UserIds -> UserRow] /\ users'[u].state = "unused"
        /\ \A v \in UserIds \ {u} : users'[v] = users[v]
    BY <1>3, <2>1, <2>4 DEF RolledBack, IInv, TypeOK
  <2>6. OneRow
    BY <2>5 DEF OneRow
  <2>7. NameUnique'
    <3>1. \A v \in (Stored \cup Pending)' : v \in Stored \cup Pending /\ users'[v] = users[v]
      BY <2>5 DEF Stored, Pending
    <3> QED
      BY <3>1 DEF IInv, NameUnique
  <2>8. PendingOwned'
    <3>1. \A s \in Reqs \ {r} : req[s].pc = "commit" => req[s].user # u
      BY <1>3, <2>1 DEF IInv, PendingOwned
    <3> QED
      BY <2>3, <2>5, <3>1, OthersPending
  <2> QED
    BY <2>3, <2>5, <2>6, <2>7, <2>8, RowStepInv
<1> QED
  BY <1>2, <1>3

LEMMA CrashInv == ASSUME IInv, NEW r \in Reqs, Crash(r) PROVE IInv'
BY RolledBackInv DEF Crash, Gone

LEMMA FaultInv == ASSUME IInv, NEW r \in Reqs, Fault(r) PROVE IInv'
BY RolledBackInv DEF Fault, Break, Gone

LEMMA CreateUserInv ==
    ASSUME IInv, NEW u \in UserIds, NEW name \in Names, NEW email \in Emails \cup {NoEmail},
           NEW roles \in RoleSets, CreateUser(u, name, email, roles)
    PROVE  IInv'
<1>1. PICK row \in UserRow :
         row = [state |-> "stored", username |-> name, email |-> email,
                roles |-> roles, is_active |-> TRUE]
  BY DEF UserRow
<1>2. users[u].state = "unused" /\ UNCHANGED req /\ Observe
  BY DEF CreateUser
<1>3. /\ users' \in [UserIds -> UserRow] /\ users'[u] = row
      /\ \A v \in UserIds \ {u} : users'[v] = users[v]
  BY <1>1 DEF CreateUser, IInv, TypeOK
<1>4. \A v \in Stored \cup Pending : users[v].username # name
  BY ConstantsAssumption DEF CreateUser, Clashing, Stored, Pending
<1>5. \A v \in (Stored \cup Pending)' :
         v = u \/ (v \in Stored \cup Pending /\ users'[v] = users[v])
  BY <1>3 DEF Stored, Pending
<1>6. NameUnique'
  <2> SUFFICES ASSUME NEW v \in (Stored \cup Pending)', NEW w \in (Stored \cup Pending)',
                      users'[v].username = AdminName, users'[w].username = AdminName
               PROVE  v = w
    BY DEF NameUnique
  <2>1. CASE v # u /\ w # u
    BY <1>5, <2>1 DEF IInv, NameUnique
  <2>2. CASE v = u \/ w = u
    <3>1. name = AdminName
      BY <1>1, <1>3, <2>2
    <3> QED
      BY <1>4, <1>5, <2>2, <3>1
  <2> QED
    BY <2>1, <2>2
<1> QED
  BY <1>2, <1>3, <1>6, ElsewhereInv

LEMMA EditInv ==
    ASSUME IInv, NEW u \in UserIds, NEW f \in Fields, NEW value \in Values[f], Edit(u, f, value)
    PROVE  IInv'
<1>1. /\ u \in Stored /\ UNCHANGED req /\ Observe
      /\ users' = [users EXCEPT ![u][f] = value]
      /\ f = "username" => \A v \in (Pending \cup Stored) \ {u} : users[v].username # value
  BY DEF Edit
<1>2. /\ users' \in [UserIds -> UserRow] /\ NameUnique'
      /\ \A v \in UserIds \ {u} : users'[v] = users[v]
  BY <1>1, FieldWritten
<1>3. users[u].state # "pending"
  BY <1>1 DEF Stored
<1> QED
  BY <1>1, <1>2, <1>3, ElsewhereInv

LEMMA DeleteUserInv == ASSUME IInv, NEW u \in UserIds, DeleteUser(u) PROVE IInv'
<1>1. users[u].state = "stored" /\ UNCHANGED req /\ Observe
  BY DEF DeleteUser, Stored
<1>2. PICK row \in UserRow : row = [Blank EXCEPT !.state = "gone"] /\ row.state = "gone"
  <2>1. [Blank EXCEPT !.state = "gone"] \in UserRow /\ [Blank EXCEPT !.state = "gone"].state = "gone"
    BY ConstantsAssumption DEF Blank, UserRow
  <2> QED
    BY <2>1
<1>3. /\ users' \in [UserIds -> UserRow] /\ users'[u].state = "gone"
      /\ \A v \in UserIds \ {u} : users'[v] = users[v]
  BY <1>2 DEF DeleteUser, IInv, TypeOK
<1>4. NameUnique'
  <2>1. \A v \in (Stored \cup Pending)' : v \in Stored \cup Pending /\ users'[v] = users[v]
    BY <1>3 DEF Stored, Pending
  <2> QED
    BY <2>1 DEF IInv, NameUnique
<1> QED
  BY <1>1, <1>3, <1>4, ElsewhereInv

-----------------------------------------------------------------------------
LEMMA StutterInv == IInv /\ UNCHANGED vars => IInv'
<1> SUFFICES ASSUME IInv, UNCHANGED vars PROVE IInv'
  OBVIOUS
<1>1. TypeOK' /\ ReqShape' /\ PendingOwned' /\ NameUnique'
  BY DEF IInv, vars, TypeOK, ReqShape, PendingOwned, InsertedRow, NameUnique, Stored, Pending
<1>2. Progress'
  BY DEF IInv, vars, Progress, StartSound, Superusers, Stored
<1> QED
  BY <1>1, <1>2 DEF IInv

LEMMA NextInv == IInv /\ [Next]_vars => IInv'
<1> SUFFICES ASSUME IInv, [Next]_vars PROVE IInv'
  OBVIOUS
<1>1. ASSUME NEW r \in Reqs, BeginPatch(r) PROVE IInv'
  BY <1>1, BeginPatchInv
<1>2. ASSUME NEW r \in Reqs, Load(r) PROVE IInv'
  BY <1>2, LoadInv
<1>3. ASSUME NEW r \in Reqs, Write(r) PROVE IInv'
  BY <1>3, WriteInv
<1>4. ASSUME NEW r \in Reqs, Reload(r) PROVE IInv'
  BY <1>4, ReloadInv
<1>5. ASSUME NEW r \in Reqs, BeginStart(r) PROVE IInv'
  BY <1>5, BeginStartInv
<1>6. ASSUME NEW r \in Reqs, Insert(r) PROVE IInv'
  BY <1>6, InsertInv
<1>7. ASSUME NEW r \in Reqs, Commit(r) PROVE IInv'
  BY <1>7, CommitInv
<1>8. ASSUME NEW r \in Reqs, Find(r) PROVE IInv'
  BY <1>8, FindInv
<1>9. ASSUME NEW r \in Reqs, Return(r) PROVE IInv'
  BY <1>9, ReturnInv
<1>10. ASSUME NEW r \in Reqs, Crash(r) PROVE IInv'
  BY <1>10, CrashInv
<1>14. ASSUME NEW r \in Reqs, Fault(r) PROVE IInv'
  BY <1>14, FaultInv
<1>11. ASSUME NEW u \in UserIds, NEW name \in Names, NEW email \in Emails \cup {NoEmail},
              NEW roles \in RoleSets, CreateUser(u, name, email, roles)
       PROVE  IInv'
  BY <1>11, CreateUserInv
<1>12. ASSUME NEW u \in UserIds, NEW f \in Fields, NEW value \in Values[f], Edit(u, f, value)
       PROVE  IInv'
  BY <1>12, EditInv
<1>13. ASSUME NEW u \in UserIds, DeleteUser(u) PROVE IInv'
  BY <1>13, DeleteUserInv
<1> QED
  BY <1>1, <1>2, <1>3, <1>4, <1>5, <1>6, <1>7, <1>8, <1>9, <1>10, <1>11, <1>12, <1>13,
     <1>14, StutterInv DEF Next

\* The inductive invariant holds of every PATCH and every start, in whatever
\* order their statements, their crashes and the rest of the system interleave.
THEOREM Inductive == Spec => []IInv
<1> QED
  BY InitInv, NextInv, PTL DEF Spec

\* Types: rows, requests and histories keep their shape through every field
\* written by update_by_attribute, every INSERT and every roll-back.
THEOREM TypeCorrect == Spec => []TypeOK
<1>1. IInv => TypeOK
  BY DEF IInv
<1> QED
  BY <1>1, Inductive, PTL

\* _update_user: whatever field a PATCH has passed, its user had the asked value
\* at some moment since the request began, however many other requests write.
THEOREM PatchPrefixHolds == Spec => []PatchPrefix
<1>1. IInv => PatchPrefix
  BY DEF IInv, Progress, PatchSound, PatchPrefix
<1> QED
  BY <1>1, Inductive, PTL

\* create_superuser: when it returns there has been a superuser with the roles and an
\* active one while it ran, unless something no start can help excuses it.
THEOREM StartsEstablish == Spec => []StartEstablishes
<1>1. IInv => StartEstablishes
  BY DEF IInv, Progress, StartSound, StartEstablishes, Aims
<1> QED
  BY <1>1, Inductive, PTL
=============================================================================
