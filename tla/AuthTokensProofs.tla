-------------------------- MODULE AuthTokensProofs --------------------------
(* Safety of AuthTokens for every set of accounts, requests and tokens.       *)
EXTENDS AuthTokens, TLAPS

\* What the program counter of a request says about its data ...
Shape(q) ==
    /\ q.pc # "idle" => q.op \in Kinds /\ q.user \in Users
    /\ q.op = "disable" => q.pc \in {"user", "disable"}
    /\ q.op \in {"login", "oauth", "guest"} => q.jti = NoJti
    /\ q.pc = "token" => q.op \in {"refresh", "logout"}
    /\ q.pc = "disable" => q.op = "disable"
    /\ q.pc \in {"enable", "reload", "ban"} => q.user \notin Guests
    /\ q.pc = "revoke" => q.stage = 1 /\ q.op \in {"refresh", "logout"}
    /\ q.pc \in {"token", "user"} => q.stage = 1
    /\ q.pc = "issue" => q.op \in Issuing /\ (q.stage = 2 \/ q.op = "login")
    /\ q.pc = "respond" => q.op \in Issuing
    /\ q.pc = "password" => q.op = "login"
    /\ q.pc \in {"password", "recheck"} => q.stage = 1
    /\ q.pc = "recheck" => q.op \in {"oauth", "guest", "refresh"}
    /\ q.stage = 2 => q.op \in {"oauth", "guest", "refresh"}

\* ... about the token it presented ...
Presented(q) ==
    q.pc # "idle" /\ q.op \in {"refresh", "logout"} =>
        /\ q.jti \in Jtis
        /\ tokens[q.jti].state # "unused"
        /\ tokens[q.jti].user = q.user
        /\ q.pc \in {"recheck", "issue"} \/ q.stage = 2 =>
              q.op = "refresh" /\ tokens[q.jti].state \in {"revoked", "gone"}

\* ... and about what it has seen.
Witnessed(q, facts) ==
    /\ q.pc \in {"enable", "reload", "ban", "password", "revoke", "recheck", "issue"}
         => "active" \in facts /\ (q.user \notin Guests => "within" \in facts)
    /\ q.op \in Issuing /\ q.pc \in {"password", "revoke", "recheck", "issue"}
       /\ q.user \notin Guests => "unbanned" \in facts
    /\ q.op = "refresh" /\ q.pc \notin {"idle", "token", "respond"} => "live" \in facts

\* A token that reached a client, or was rotated, has been issued.
IssuedTokens ==
    /\ \A j \in Jtis : tokens[j].state # "unused" => tokens[j].user \in Users
    /\ \A j \in delivered : tokens[j].state # "unused"
    /\ \A r \in Reqs : req[r].pc = "respond" =>
          req[r].new \in Jtis /\ tokens[req[r].new].state # "unused"

ReqInv ==
    \A r \in Reqs : Shape(req[r]) /\ Presented(req[r]) /\ Witnessed(req[r], seen[r])

IInv == TypeOK /\ IssuedTokens /\ ReqInv /\ RotationSound /\ TokenOwnerExists

\* Tokens only move forward: unused, live, revoked, gone.
TokensAdvance ==
    \A j \in Jtis : tokens[j].state # "unused" =>
        /\ tokens'[j].state # "unused"
        /\ tokens'[j].user = tokens[j].user
        /\ tokens[j].state \in {"revoked", "gone"} => tokens'[j].state \in {"revoked", "gone"}

-----------------------------------------------------------------------------
\* The history of a request only grows while the request lasts, and contains
\* the facts of the state just reached.
LEMMA ObserveGrows ==
    ASSUME Observe, NEW r \in Reqs
    PROVE  req'[r].pc \notin {"idle", "respond", "disable"} =>
             /\ req[r].pc # "idle" => seen[r] \subseteq seen'[r]
             /\ FactsOf(req[r])' \subseteq seen'[r]
BY DEF Observe, FactsOf

\* seen keeps its type.
LEMMA ObserveType ==
    ASSUME TypeOK, Observe
    PROVE  seen' \in [Reqs -> SUBSET Facts]
BY DEF TypeOK, Observe, FactsOf

\* Where a validation sends a request is a program counter.
LEMMA AfterStatusType ==
    ASSUME NEW q \in Request
    PROVE  AfterValidation(q) \in Pcs /\ AfterStatus(q) \in Pcs
BY DEF AfterValidation, AfterStatus, Pcs

\* A request goes on with well-typed data, and only that request moves.
LEMMA GotoType ==
    ASSUME TypeOK, NEW r \in Reqs, NEW q \in Request, NEW pc \in Pcs, Goto(r, q, pc)
    PROVE  /\ req' \in [Reqs -> Request]
           /\ req'[r] = IF pc = "idle" THEN Idle ELSE [q EXCEPT !.pc = pc]
           /\ \A s \in Reqs \ {r} : req'[s] = req[s]
<1>1. Idle \in Request
  BY DEF Idle, NewRow, Request, UserRow, Time, Pcs
<1>2. [q EXCEPT !.pc = pc] \in Request
  BY DEF Request
<1> QED
  BY <1>1, <1>2 DEF Goto, TypeOK

\* A request in progress keeps its invariant while the others move.
LEMMA OthersInv ==
    ASSUME ReqInv, TokensAdvance, Observe, NEW s \in Reqs, req'[s] = req[s]
    PROVE  (Shape(req[s]) /\ Presented(req[s]) /\ Witnessed(req[s], seen[s]))'
<1>1. Shape(req[s])'
  BY DEF ReqInv, Shape
<1>2. Presented(req[s])'
  BY DEF ReqInv, Presented, TokensAdvance
<1>3. Witnessed(req[s], seen[s])'
  BY ObserveGrows DEF ReqInv, Shape, Witnessed
<1> QED
  BY <1>1, <1>2, <1>3

\* So an action that moves one request only has that request to account for.
LEMMA OneRequest ==
    ASSUME ReqInv, TokensAdvance, Observe, NEW r \in Reqs,
           \A s \in Reqs \ {r} : req'[s] = req[s],
           \/ req'[r] = Idle
           \/ (Shape(req[r]) /\ Presented(req[r]) /\ Witnessed(req[r], seen[r]))'
    PROVE  ReqInv'
<1>1. ASSUME req'[r] = Idle
      PROVE  (Shape(req[r]) /\ Presented(req[r]) /\ Witnessed(req[r], seen[r]))'
  BY <1>1 DEF Idle, Shape, Presented, Witnessed
<1> QED
  BY <1>1, OthersInv DEF ReqInv

\* A step that leaves the token tables and the existence of users alone.
LEMMA QuietTokens ==
    ASSUME IInv, UNCHANGED <<tokens, parent, delivered>>,
           \A u \in Users : users'[u].here = users[u].here,
           \A r \in Reqs : req'[r].pc = "respond" => req'[r] = req[r]
    PROVE  TokensAdvance /\ IssuedTokens' /\ RotationSound' /\ TokenOwnerExists'
BY DEF IInv, TokensAdvance, IssuedTokens, RotationSound, TokenOwnerExists

\* A step of request r that touches at most users, banned and clock.
LEMMA QuietStep ==
    ASSUME IInv, NEW r \in Reqs, NEW q \in Request, NEW pc \in Pcs \ {"respond"},
           Goto(r, q, pc), Observe, UNCHANGED <<tokens, parent, delivered>>,
           users' \in [Users -> UserRow], banned' \subseteq Users, clock' \in Nat,
           \A u \in Users : users'[u].here = users[u].here,
           pc # "idle" /\ req'[r] = [q EXCEPT !.pc = pc] =>
             (Shape(req[r]) /\ Presented(req[r]) /\ Witnessed(req[r], seen[r]))'
    PROVE  IInv'
<1>1. /\ req' \in [Reqs -> Request]
      /\ req'[r] = IF pc = "idle" THEN Idle ELSE [q EXCEPT !.pc = pc]
      /\ \A s \in Reqs \ {r} : req'[s] = req[s]
  BY GotoType DEF IInv
<1>2. req'[r].pc = pc
  BY <1>1 DEF Idle, Request
<1>3. \A s \in Reqs : req'[s].pc = "respond" => req'[s] = req[s]
  BY <1>1, <1>2
<1>4. TokensAdvance /\ IssuedTokens' /\ RotationSound' /\ TokenOwnerExists'
  BY <1>3, QuietTokens
<1>5. ReqInv'
  BY <1>1, <1>4, OneRequest DEF IInv
<1>6. TypeOK'
  BY <1>1, ObserveType DEF IInv, TypeOK
<1> QED
  BY <1>4, <1>5, <1>6 DEF IInv

\* A step of the surroundings, which moves no request.
LEMMA OutsideStep ==
    ASSUME IInv, UNCHANGED req, Observe, TokensAdvance,
           TypeOK', IssuedTokens', RotationSound', TokenOwnerExists'
    PROVE  IInv'
BY OthersInv DEF IInv, ReqInv

-----------------------------------------------------------------------------
\* IInv holds initially.
LEMMA InitInv == Init => IInv
<1> SUFFICES ASSUME Init PROVE IInv
  OBVIOUS
<1> USE DEF Init
<1>1. TypeOK
  BY ConstantsAssumption
     DEF TypeOK, NewRow, Idle, UserRow, TokenRow, Request, Time, Pcs
<1>2. IssuedTokens /\ RotationSound /\ TokenOwnerExists
  BY DEF IssuedTokens, RotationSound, TokenOwnerExists, Idle
<1>3. ReqInv
  BY DEF ReqInv, Shape, Presented, Witnessed, Idle
<1> QED
  BY <1>1, <1>2, <1>3 DEF IInv

\* A request arrives with a token the client holds, or with a user only.
LEMMA BeginInv ==
    ASSUME IInv, NEW r \in Reqs, Begin(r)
    PROVE  IInv'
<1>t. TypeOK /\ IssuedTokens
  BY DEF IInv
<1>i. Idle \in Request
  BY DEF Idle, NewRow, Request, UserRow, Time, Pcs
<1>u. /\ UNCHANGED <<users, banned, tokens, delivered, parent, clock>>
      /\ Observe
  BY DEF Begin, BeginLogin, BeginToken, BeginDisable
<1>q. ASSUME NEW q \in Request, NEW pc \in {"user", "token"}, Goto(r, q, pc),
             q.stage = 1, q.op \in Kinds, q.user \in Users,
             pc = "token" <=> q.op \in {"refresh", "logout"},
             IF pc = "user" THEN q.jti = NoJti
             ELSE /\ q.jti \in Jtis
                  /\ tokens[q.jti].state # "unused" /\ tokens[q.jti].user = q.user
      PROVE  IInv'
  <2>1. ASSUME req'[r] = [q EXCEPT !.pc = pc]
        PROVE  (Shape(req[r]) /\ Presented(req[r]) /\ Witnessed(req[r], seen[r]))'
    BY <1>u, <1>q, <2>1 DEF Shape, Presented, Witnessed, Request, Kinds, Issuing
  <2> QED
    BY <1>t, <1>u, <1>q, <2>1, QuietStep DEF TypeOK, Pcs
<1>1. CASE BeginLogin(r)
  <2>1. PICK op \in {"login", "oauth", "guest"}, u \in Users :
           Goto(r, [Idle EXCEPT !.op = op, !.user = u], "user")
    BY <1>1, Zenon DEF BeginLogin
  <2> DEFINE q == [Idle EXCEPT !.op = op, !.user = u]
  <2>2. /\ q \in Request /\ q.stage = 1 /\ q.jti = NoJti
        /\ q.op = op /\ q.user = u
    BY <1>i DEF Request, Idle, Kinds, Issuing
  <2>3. Goto(r, q, "user")
    BY <2>1
  <2> HIDE DEF q
  <2> QED
    BY <2>2, <2>3, <1>q DEF Kinds, Issuing
<1>2. CASE BeginToken(r)
  <2>1. PICK op \in {"refresh", "logout"}, j \in delivered :
           Goto(r, [Idle EXCEPT !.op = op, !.jti = j, !.user = tokens[j].user], "token")
    BY <1>2, Zenon DEF BeginToken
  <2> DEFINE q == [Idle EXCEPT !.op = op, !.jti = j, !.user = tokens[j].user]
  <2>2. j \in Jtis /\ tokens[j].state # "unused" /\ tokens[j].user \in Users
    BY <1>t DEF TypeOK, IssuedTokens
  <2>3. /\ q \in Request /\ q.stage = 1 /\ q.jti = j
        /\ q.op = op /\ q.user = tokens[j].user
    BY <1>i, <2>2 DEF Request, Idle, Kinds, Issuing
  <2>4. Goto(r, q, "token")
    BY <2>1
  <2> HIDE DEF q
  <2> QED
    BY <2>2, <2>3, <2>4, <1>q DEF Kinds, Issuing
<1>3. CASE BeginDisable(r)
  <2>1. PICK j \in delivered :
           Goto(r, [Idle EXCEPT !.op = "disable", !.user = tokens[j].user], "user")
    BY <1>3, Zenon DEF BeginDisable
  <2> DEFINE q == [Idle EXCEPT !.op = "disable", !.user = tokens[j].user]
  <2>2. tokens[j].user \in Users
    BY <1>t DEF TypeOK, IssuedTokens
  <2>3. /\ q \in Request /\ q.stage = 1 /\ q.jti = NoJti
        /\ q.op = "disable" /\ q.user = tokens[j].user
    BY <1>i, <2>2 DEF Request, Idle, Kinds, Issuing
  <2>4. Goto(r, q, "user")
    BY <2>1
  <2> HIDE DEF q
  <2> QED
    BY <2>2, <2>3, <2>4, <1>q DEF Kinds, Issuing
<1> QED
  BY <1>1, <1>2, <1>3 DEF Begin

\* The statements of a request that only read: each continues with what the
\* copy of a row, or the answer of the query, has shown.
LEMMA ReadInv ==
    ASSUME IInv, NEW r \in Reqs,
           LoadToken(r) \/ QueryBan(r) \/ VerifyPassword(r)
    PROVE  IInv'
<1>t. TypeOK /\ req[r] \in Request /\ Shape(req[r]) /\ Presented(req[r])
         /\ Witnessed(req[r], seen[r])
  BY DEF IInv, ReqInv, TypeOK
<1>u. UNCHANGED <<users, banned, tokens, delivered, parent, clock>> /\ Observe
  BY DEF LoadToken, QueryBan, VerifyPassword
<1>g. req'[r].pc \notin {"idle", "respond", "disable"} /\ req[r].pc # "idle"
      => seen[r] \subseteq seen'[r]
  BY <1>u, ObserveGrows
<1>f. req'[r].pc \notin {"idle", "respond", "disable"} => FactsOf(req[r])' \subseteq seen'[r]
  BY <1>u, ObserveGrows
<1>q. ASSUME NEW pc \in Pcs \ {"respond"}, Goto(r, req[r], pc),
             pc # "idle" /\ req'[r] = [req[r] EXCEPT !.pc = pc] =>
               (Shape(req[r]) /\ Presented(req[r]) /\ Witnessed(req[r], seen[r]))'
      PROVE  IInv'
  BY <1>t, <1>u, <1>q, QuietStep DEF TypeOK
<1>1. CASE LoadToken(r)
  <2> DEFINE pc == IF Usable(tokens[req[r].jti]) THEN "user" ELSE "idle"
  <2>1. req[r].pc = "token" /\ Goto(r, req[r], pc)
    BY <1>1 DEF LoadToken
  <2>2. ASSUME pc # "idle", req'[r] = [req[r] EXCEPT !.pc = pc]
        PROVE  (Shape(req[r]) /\ Presented(req[r]) /\ Witnessed(req[r], seen[r]))'
    <3>1. req'[r] = [req[r] EXCEPT !.pc = "user"] /\ Usable(tokens[req[r].jti])
      BY <2>2
    <3>2. req[r].jti \in Jtis
      BY <1>t, <2>1 DEF Shape, Presented
    <3>3. req[r].op = "refresh" => "live" \in FactsOf(req[r])'
      BY <1>t, <1>u, <3>1, <3>2, ConstantsAssumption
         DEF FactsOf, Facts, Usable, Request
    <3>4. req[r].op = "refresh" => "live" \in seen'[r]
      BY <1>t, <1>f, <3>1, <3>3 DEF Request
    <3> QED
      BY <1>t, <1>u, <2>1, <3>1, <3>4 DEF Shape, Presented, Witnessed, Request
  <2> QED
    BY <2>1, <2>2, <1>q DEF Pcs
<1>2. CASE QueryBan(r)
  <2> DEFINE pc == IF req[r].user \in banned THEN "idle" ELSE AfterValidation(req[r])
  <2>1. req[r].pc = "ban" /\ Goto(r, req[r], pc)
    BY <1>2 DEF QueryBan
  <2>2. pc \in Pcs \ {"respond"}
    BY <1>t DEF AfterValidation, Pcs
  <2>3. ASSUME pc # "idle", req'[r] = [req[r] EXCEPT !.pc = pc]
        PROVE  (Shape(req[r]) /\ Presented(req[r]) /\ Witnessed(req[r], seen[r]))'
    <3>1. /\ req[r].user \notin banned
          /\ req'[r] = [req[r] EXCEPT !.pc = AfterValidation(req[r])]
      BY <2>3
    <3>2. /\ req'[r].pc # "idle" /\ req'[r].pc = AfterValidation(req[r])
          /\ req'[r].user = req[r].user /\ req'[r].op = req[r].op
          /\ req'[r].jti = req[r].jti /\ req'[r].stage = req[r].stage
      BY <1>t, <3>1 DEF Request, AfterValidation
    <3>3. req[r].op \in Issuing => "unbanned" \in FactsOf(req[r])'
      BY <1>u, <3>1, <3>2 DEF FactsOf, Facts
    <3>4. /\ req[r].op \in Issuing => "unbanned" \in seen'[r]
          /\ seen[r] \subseteq seen'[r]
      BY <1>f, <1>g, <2>1, <3>2, <3>3 DEF AfterValidation
    <3> HIDE DEF pc
    <3>5. Shape(req[r])'
      BY <1>t, <2>1, <3>2 DEF Shape, AfterValidation, Request, Issuing, Kinds
    <3>6. Presented(req[r])'
      BY <1>t, <1>u, <2>1, <3>2 DEF Shape, Presented, AfterValidation, Request
    <3>7. Witnessed(req[r], seen[r])'
      BY <1>t, <2>1, <3>2, <3>4 DEF Shape, Witnessed, AfterValidation
    <3> QED
      BY <3>5, <3>6, <3>7
  <2> HIDE DEF pc
  <2> QED
    BY <2>1, <2>2, <2>3, <1>q
<1>3. CASE VerifyPassword(r)
  <2>1. PICK ok \in BOOLEAN :
          Goto(r, req[r], IF ok /\ req[r].user \notin Guests THEN "issue" ELSE "idle")
    BY <1>3, Zenon DEF VerifyPassword
  <2> DEFINE pc == IF ok /\ req[r].user \notin Guests THEN "issue" ELSE "idle"
  <2>2. req[r].pc = "password" /\ Goto(r, req[r], pc)
    BY <1>3, <2>1 DEF VerifyPassword
  <2>3. ASSUME pc # "idle", req'[r] = [req[r] EXCEPT !.pc = pc]
        PROVE  (Shape(req[r]) /\ Presented(req[r]) /\ Witnessed(req[r], seen[r]))'
    <3>1. req'[r] = [req[r] EXCEPT !.pc = "issue"]
      BY <2>3
    <3> QED
      BY <1>t, <1>u, <1>g, <2>2, <3>1 DEF Shape, Presented, Witnessed, Request, Issuing
  <2> QED
    BY <2>2, <2>3, <1>q DEF Pcs
<1> QED
  BY <1>1, <1>2, <1>3

\* The first tests of a validation on a freshly loaded row, or of disable_account.
LEMMA LoadUserInv ==
    ASSUME IInv, NEW r \in Reqs, LoadUser(r)
    PROVE  IInv'
<1> DEFINE row == users[req[r].user]
           q   == [req[r] EXCEPT !.row = row]
           pc  == IF ~row.here THEN "idle"
                  ELSE IF q.op # "disable" THEN AfterStatus(q)
                  ELSE IF row.disabled_at = Never THEN "disable" ELSE "idle"
<1>t. TypeOK /\ req[r] \in Request /\ Shape(req[r]) /\ Presented(req[r])
         /\ Witnessed(req[r], seen[r])
  BY DEF IInv, ReqInv, TypeOK
<1>u. UNCHANGED <<users, banned, tokens, delivered, parent, clock>> /\ Observe
  BY DEF LoadUser
<1>p. req[r].pc = "user" /\ Goto(r, q, pc)
  BY DEF LoadUser
<1>w. /\ req[r].user \in Users /\ row \in UserRow /\ req[r].stage = 1
      /\ req[r].op \in Kinds
  BY <1>t, <1>p DEF TypeOK, Shape
<1>q. /\ q \in Request /\ q.row = row /\ q.op = req[r].op /\ q.user = req[r].user
      /\ q.stage = 1 /\ q.jti = req[r].jti
  BY <1>t, <1>w DEF Request
<1>a. pc \in {"idle", "disable", "enable", "ban", "recheck", "revoke", "password"}
  BY <1>q DEF AfterStatus, AfterValidation
<1>1. ASSUME pc # "idle", req'[r] = [q EXCEPT !.pc = pc]
      PROVE  (Shape(req[r]) /\ Presented(req[r]) /\ Witnessed(req[r], seen[r]))'
  <2> HIDE DEF pc
  <2>1. /\ req'[r].pc = pc /\ req'[r].user = req[r].user /\ req'[r].op = req[r].op
        /\ req'[r].jti = req[r].jti /\ req'[r].stage = 1
    BY <1>q, <1>1 DEF Request
  <2>2. pc # "disable" =>
          seen[r] \subseteq seen'[r] /\ FactsOf(req[r])' \subseteq seen'[r]
    BY <1>u, <1>p, <1>a, <1>1, <2>1, ObserveGrows
  <2> USE DEF pc
  <2> HIDE DEF q, row
  <2>3. Shape(req[r])'
    BY <1>t, <1>p, <1>w, <1>q, <1>1, <2>1
       DEF Shape, AfterStatus, AfterValidation, Kinds, Issuing
  <2>4. Presented(req[r])'
    <3>1. pc = "recheck" => req[r].op \in {"oauth", "guest"}
      BY <1>q DEF AfterStatus, AfterValidation
    <3> HIDE DEF pc
    <3> QED
      BY <1>t, <1>u, <1>p, <1>a, <2>1, <3>1 DEF Presented
  <2>5. pc # "disable" =>
          /\ row.is_active
          /\ req[r].user \notin Guests => WithinGrace(row)
    BY <1>q, <1>1 DEF AfterStatus, AfterValidation, WithinGrace
  <2>6. /\ pc \in {"password", "revoke", "recheck"} => req[r].user \in Guests
        /\ pc = "disable" => req[r].op = "disable"
    BY <1>q DEF AfterStatus, AfterValidation
  <2>7. pc # "disable" =>
          /\ row.is_active => "active" \in seen'[r]
          /\ WithinGrace(row) => "within" \in seen'[r]
    BY <1>u, <2>1, <2>2 DEF FactsOf, Facts, WithinGrace, row
  <2> HIDE DEF pc
  <2>8. Witnessed(req[r], seen[r])'
    BY <1>t, <1>p, <1>a, <2>1, <2>2, <2>5, <2>6, <2>7 DEF Witnessed
  <2> QED
    BY <2>3, <2>4, <2>8
<1> HIDE DEF pc, q
<1> QED
  BY <1>t, <1>u, <1>p, <1>q, <1>a, <1>1, QuietStep DEF TypeOK, Pcs

\* The second validation, on the same copy: what it relies on was seen before.
LEMMA RevalidateInv ==
    ASSUME IInv, NEW r \in Reqs, Revalidate(r)
    PROVE  IInv'
<1> DEFINE q == [req[r] EXCEPT !.stage = 2]
<1>t. TypeOK /\ req[r] \in Request /\ Shape(req[r]) /\ Presented(req[r])
         /\ Witnessed(req[r], seen[r])
  BY DEF IInv, ReqInv, TypeOK
<1>u. UNCHANGED <<users, banned, tokens, delivered, parent, clock>> /\ Observe
  BY DEF Revalidate
<1>p. req[r].pc = "recheck" /\ Goto(r, q, AfterStatus(q))
  BY DEF Revalidate
<1>q. /\ q \in Request /\ q.op = req[r].op /\ q.user = req[r].user
      /\ q.stage = 2 /\ q.jti = req[r].jti
  BY <1>t DEF Request
<1> HIDE DEF q
<1>a. AfterStatus(q) \in {"idle", "enable", "ban", "issue"}
  BY <1>q DEF AfterStatus, AfterValidation
<1>1. ASSUME AfterStatus(q) # "idle", req'[r] = [q EXCEPT !.pc = AfterStatus(q)]
      PROVE  (Shape(req[r]) /\ Presented(req[r]) /\ Witnessed(req[r], seen[r]))'
  <2>1. /\ req'[r].pc = AfterStatus(q) /\ req'[r].user = req[r].user
        /\ req'[r].op = req[r].op /\ req'[r].jti = req[r].jti /\ req'[r].stage = 2
    BY <1>q, <1>1 DEF Request
  <2>2. seen[r] \subseteq seen'[r]
    BY <1>u, <1>p, <1>a, <1>1, <2>1, ObserveGrows
  <2>3. AfterStatus(q) # "issue" => req[r].user \notin Guests
    BY <1>q, <1>1 DEF AfterStatus, AfterValidation
  <2>4. Shape(req[r])'
    BY <1>t, <1>p, <1>a, <2>1, <2>3 DEF Shape, Issuing, Kinds
  <2>5. Presented(req[r])'
    BY <1>t, <1>u, <1>p, <1>a, <2>1 DEF Presented
  <2>6. Witnessed(req[r], seen[r])'
    BY <1>t, <1>p, <1>a, <2>1, <2>2, <2>3 DEF Witnessed
  <2> QED
    BY <2>4, <2>5, <2>6
<1> QED
  BY <1>t, <1>u, <1>p, <1>q, <1>a, <1>1, QuietStep DEF TypeOK, Pcs

\* The writes and the reload of a user row, and the end of a request.
LEMMA UserWriteInv ==
    ASSUME IInv, NEW r \in Reqs,
           Enable(r) \/ Reload(r) \/ WriteDisable(r) \/ Abort(r)
    PROVE  IInv'
<1>t. /\ TypeOK /\ req[r] \in Request /\ Shape(req[r]) /\ Presented(req[r])
      /\ Witnessed(req[r], seen[r])
  BY DEF IInv, ReqInv, TypeOK
<1>u. UNCHANGED <<banned, tokens, delivered, parent, clock>> /\ Observe
  BY DEF Enable, Reload, WriteDisable, Abort
<1>g. req'[r].pc \notin {"idle", "respond", "disable"} /\ req[r].pc # "idle"
      => seen[r] \subseteq seen'[r]
  BY <1>u, ObserveGrows
<1>e. ASSUME Goto(r, req[r], "idle"), users' \in [Users -> UserRow],
             \A u \in Users : users'[u].here = users[u].here
      PROVE  IInv'
  BY <1>t, <1>u, <1>e, QuietStep DEF TypeOK, Pcs
<1>1. CASE Enable(r)
  <2>1. req[r].pc = "enable" /\ req[r].user \in Users
    BY <1>1, <1>t DEF Enable, Shape
  <2>2. /\ users' \in [Users -> UserRow]
        /\ \A u \in Users : users'[u].here = users[u].here
    BY <1>1, <1>t DEF Enable, TypeOK, UserRow, Time
  <2>3. ASSUME Goto(r, req[r], "reload") PROVE IInv'
    <3>1. ASSUME req'[r] = [req[r] EXCEPT !.pc = "reload"]
          PROVE  (Shape(req[r]) /\ Presented(req[r]) /\ Witnessed(req[r], seen[r]))'
      BY <1>t, <1>u, <1>g, <2>1, <3>1 DEF Shape, Presented, Witnessed, Request
    <3> QED
      BY <1>t, <1>u, <2>2, <2>3, <3>1, QuietStep DEF TypeOK, Pcs
  <2>4. Goto(r, req[r], "reload") \/ Goto(r, req[r], "idle")
    BY <1>1 DEF Enable
  <2> QED
    BY <1>e, <2>2, <2>3, <2>4
<1>2. CASE Reload(r)
  <2> DEFINE row == users[req[r].user]
             q == [req[r] EXCEPT !.row = row]
             pc == IF row.here THEN "ban" ELSE "idle"
  <2>1. /\ req[r].pc = "reload" /\ UNCHANGED users /\ Goto(r, q, pc)
        /\ req[r].user \in Users /\ row \in UserRow
    BY <1>2, <1>t DEF Reload, Shape, TypeOK
  <2>2. /\ q \in Request /\ q.op = req[r].op /\ q.user = req[r].user
        /\ q.stage = req[r].stage /\ q.jti = req[r].jti
    BY <1>t, <2>1 DEF Request
  <2>3. pc \in {"ban", "idle"}
    OBVIOUS
  <2> HIDE DEF q, pc, row
  <2>4. ASSUME pc # "idle", req'[r] = [q EXCEPT !.pc = pc]
        PROVE  (Shape(req[r]) /\ Presented(req[r]) /\ Witnessed(req[r], seen[r]))'
    BY <1>t, <1>u, <1>g, <2>1, <2>2, <2>3, <2>4 DEF Shape, Presented, Witnessed, Request
  <2> QED
    BY <1>t, <1>u, <2>1, <2>2, <2>3, <2>4, QuietStep DEF TypeOK, Pcs
<1>3. CASE WriteDisable(r)
  <2>1. /\ users' \in [Users -> UserRow]
        /\ \A u \in Users : users'[u].here = users[u].here
    BY <1>3, <1>t DEF WriteDisable, TypeOK, UserRow, Time
  <2> QED
    BY <1>3, <1>e, <2>1 DEF WriteDisable
<1>4. CASE Abort(r)
  BY <1>4, <1>t, <1>e DEF Abort, TypeOK
<1> QED
  BY <1>1, <1>2, <1>3, <1>4

\* A rotated token is revoked for good before the request goes on.
LEMMA RevokeInv ==
    ASSUME IInv, NEW r \in Reqs, Revoke(r)
    PROVE  IInv'
<1> DEFINE j == req[r].jti
<1>t. /\ TypeOK /\ req[r] \in Request /\ Shape(req[r]) /\ Presented(req[r])
      /\ Witnessed(req[r], seen[r])
  BY DEF IInv, ReqInv, TypeOK
<1>u. /\ UNCHANGED <<users, banned, delivered, parent, clock>> /\ Observe
      /\ req[r].pc = "revoke"
  BY DEF Revoke
<1>j. /\ j \in Jtis /\ tokens[j].state # "unused" /\ tokens[j] \in TokenRow
      /\ req[r].op \in {"refresh", "logout"} /\ req[r].stage = 1
  BY <1>t, <1>u DEF Shape, Presented, TypeOK
<1>1. /\ tokens' \in [Jtis -> TokenRow]
      /\ tokens'[j].state \in {"revoked", "gone"}
      /\ \A k \in Jtis : /\ tokens'[k].user = tokens[k].user
                         /\ k # j => tokens'[k] = tokens[k]
                         /\ tokens'[k].state = "unused" <=> tokens[k].state = "unused"
                         /\ tokens'[k].state \in {"live", "revoked"}
                              => tokens[k].state \in {"live", "revoked"}
                         /\ tokens[k].state \in {"revoked", "gone"}
                              => tokens'[k].state \in {"revoked", "gone"}
  <2>1. CASE tokens' = tokens /\ tokens[j].state = "gone"
    BY <2>1, <1>t, <1>j DEF TypeOK
  <2>2. CASE tokens' = [tokens EXCEPT ![j].state = "revoked"] /\ tokens[j].state # "gone"
    <3>1. tokens' = [k \in Jtis |-> IF k = j THEN [tokens[j] EXCEPT !.state = "revoked"]
                                             ELSE tokens[k]]
      BY <2>2, <1>t, <1>j DEF TypeOK
    <3>2. [tokens[j] EXCEPT !.state = "revoked"] \in TokenRow
      BY <1>j DEF TokenRow
    <3>3. /\ tokens' \in [Jtis -> TokenRow]
          /\ \A k \in Jtis : k # j => tokens'[k] = tokens[k]
      BY <1>t, <3>1, <3>2 DEF TypeOK
    <3>4. tokens'[j].state = "revoked" /\ tokens'[j].user = tokens[j].user
      BY <1>j, <3>1 DEF TokenRow
    <3>5. tokens[j].state \in {"live", "revoked"}
      BY <1>j, <2>2 DEF TokenRow
    <3> HIDE DEF j
    <3> QED
      BY <1>j, <3>3, <3>4, <3>5
  <2> QED
    BY <2>1, <2>2 DEF Revoke
<1>2. PICK pc \in {"idle", AfterRevoke(req[r])} : Goto(r, req[r], pc)
  BY DEF Revoke
<1>p. pc \in Pcs /\ pc \in {"idle", "recheck"} /\ (pc = "recheck" => req[r].op = "refresh")
  BY <1>2 DEF AfterRevoke, Pcs
<1>3. /\ req' \in [Reqs -> Request]
      /\ req'[r] = IF pc = "idle" THEN Idle ELSE [req[r] EXCEPT !.pc = pc]
      /\ \A s \in Reqs \ {r} : req'[s] = req[s]
  BY <1>t, <1>2, <1>p, GotoType
<1> HIDE DEF j
<1>4. TokensAdvance
  BY <1>1 DEF TokensAdvance
<1>5. ASSUME req'[r] # Idle
      PROVE  (Shape(req[r]) /\ Presented(req[r]) /\ Witnessed(req[r], seen[r]))'
  <2>1. /\ req'[r].pc = "recheck" /\ req'[r].user = req[r].user
        /\ req'[r].op = "refresh" /\ req'[r].jti = j /\ req'[r].stage = 1
    BY <1>t, <1>j, <1>p, <1>3, <1>5 DEF Request, j
  <2>2. seen[r] \subseteq seen'[r]
    BY <1>u, <2>1, ObserveGrows
  <2>3. Shape(req[r])'
    BY <1>t, <1>u, <2>1 DEF Shape, Kinds, Issuing
  <2>4. Presented(req[r])'
    BY <1>t, <1>u, <1>j, <1>1, <2>1 DEF Presented, j
  <2>5. Witnessed(req[r], seen[r])'
    <3>1. /\ "active" \in seen[r] /\ (req[r].user \notin Guests => "within" \in seen[r])
          /\ req[r].op \in Issuing /\ req[r].user \notin Guests => "unbanned" \in seen[r]
          /\ req[r].op = "refresh" => "live" \in seen[r]
      BY <1>t, <1>u DEF Witnessed
    <3>2. req[r].op = "refresh" /\ req[r].op \in Issuing
      BY <1>p, <1>3, <1>5 DEF Issuing
    <3> QED
      BY <2>1, <2>2, <3>1, <3>2 DEF Witnessed
  <2> QED
    BY <2>3, <2>4, <2>5
<1>6. ReqInv'
  BY <1>u, <1>3, <1>4, <1>5, OneRequest DEF IInv
<1>7. TypeOK'
  BY <1>t, <1>u, <1>1, <1>3, ObserveType DEF TypeOK
<1>8. IssuedTokens'
  <2>1. req'[r].pc # "respond"
    BY <1>p, <1>3 DEF Idle, Request, TypeOK
  <2> QED
    <3>1. \A s \in Reqs : req'[s].pc = "respond" => req'[s] = req[s]
      BY <1>3, <2>1
    <3>2. \A k \in Jtis : /\ tokens'[k].user = tokens[k].user
                          /\ tokens'[k].state = "unused" <=> tokens[k].state = "unused"
      BY <1>1
    <3>3. IssuedTokens /\ delivered \subseteq Jtis /\ delivered' = delivered
      BY <1>t, <1>u DEF IInv, TypeOK
    <3> QED
      BY <3>1, <3>2, <3>3 DEF IssuedTokens
<1>9. RotationSound'
  BY <1>t, <1>u, <1>1, ConstantsAssumption DEF IInv, RotationSound, TypeOK
<1>10. TokenOwnerExists'
  BY <1>u, <1>1 DEF IInv, TokenOwnerExists
<1> QED
  BY <1>6, <1>7, <1>8, <1>9, <1>10 DEF IInv

\* Storing a new token: its parent, if any, was revoked by the same request.
LEMMA IssueInv ==
    ASSUME IInv, NEW r \in Reqs, Issue(r)
    PROVE  IInv'
<1>t. /\ TypeOK /\ req[r] \in Request /\ Shape(req[r]) /\ Presented(req[r])
      /\ Witnessed(req[r], seen[r])
  BY DEF IInv, ReqInv, TypeOK
<1>u. /\ UNCHANGED <<users, banned, delivered, clock>> /\ Observe
      /\ req[r].pc = "issue"
  BY DEF Issue
<1>1. CASE UNCHANGED <<tokens, parent>> /\ Goto(r, req[r], "idle")
  BY <1>1, <1>t, <1>u, QuietStep DEF TypeOK, Pcs
<1>2. CASE users[req[r].user].here
  <2> DEFINE u == req[r].user
             Stored(c) == [state |-> "live", user |-> u, exp |-> clock + TokenLife]
  <2>1. PICK c \in Jtis :
          /\ tokens[c].state = "unused"
          /\ tokens' = [tokens EXCEPT ![c] = Stored(c)]
          /\ parent' = [parent EXCEPT ![c] = req[r].jti]
          /\ Goto(r, [req[r] EXCEPT !.new = c], "respond")
    BY <1>2 DEF Issue
  <2>2. u \in Users /\ Stored(c) \in TokenRow
    BY <1>t, <1>u, ConstantsAssumption DEF Shape, TypeOK, TokenRow
  <2>3. /\ tokens' \in [Jtis -> TokenRow] /\ tokens'[c].state = "live" /\ tokens'[c].user = u
        /\ \A k \in Jtis \ {c} : tokens'[k] = tokens[k]
    BY <1>t, <2>1, <2>2 DEF TypeOK
  <2>4. /\ parent' \in [Jtis -> Jtis \cup {NoJti}] /\ parent'[c] = req[r].jti
        /\ \A k \in Jtis \ {c} : parent'[k] = parent[k]
    BY <1>t, <2>1 DEF TypeOK, Request
  <2>5. [req[r] EXCEPT !.new = c] \in Request
    BY <1>t DEF Request
  <2>6. /\ req' \in [Reqs -> Request]
        /\ req'[r] = [[req[r] EXCEPT !.new = c] EXCEPT !.pc = "respond"]
        /\ \A s \in Reqs \ {r} : req'[s] = req[s]
    BY <1>t, <2>1, <2>5, GotoType DEF Pcs
  <2> HIDE DEF u, Stored
  <2>7. /\ req'[r].pc = "respond" /\ req'[r].new = c /\ req'[r].user = req[r].user
        /\ req'[r].op = req[r].op /\ req'[r].jti = req[r].jti
        /\ req'[r].stage = req[r].stage
    BY <1>t, <2>6 DEF Request
  <2>8. TokensAdvance
    BY <2>1, <2>3 DEF TokensAdvance
  <2>9. ReqInv'
    <3>1. Shape(req[r])'
      BY <1>t, <1>u, <2>7 DEF Shape
    <3>2. Presented(req[r])'
      BY <1>t, <1>u, <2>1, <2>3, <2>7 DEF Presented
    <3>3. Witnessed(req[r], seen[r])'
      BY <2>7 DEF Witnessed
    <3> QED
      BY <1>u, <2>6, <2>8, <3>1, <3>2, <3>3, OneRequest DEF IInv
  <2>10. TypeOK'
    BY <1>t, <1>u, <2>3, <2>4, <2>6, ObserveType DEF TypeOK
  <2>11. IssuedTokens'
    <3>1. \A k \in Jtis : tokens'[k].state # "unused" => tokens'[k].user \in Users
      BY <2>2, <2>3 DEF IInv, IssuedTokens
    <3>2. \A k \in Jtis : tokens[k].state # "unused" => tokens'[k].state # "unused"
      BY <2>8 DEF TokensAdvance
    <3>3. \A k \in delivered' : tokens'[k].state # "unused"
      BY <1>t, <1>u, <3>2 DEF IInv, IssuedTokens, TypeOK
    <3>4. \A s \in Reqs : req'[s].pc = "respond" =>
             req'[s].new \in Jtis /\ tokens'[req'[s].new].state # "unused"
      <4>1. req'[r].new \in Jtis /\ tokens'[req'[r].new].state # "unused"
        BY <2>3, <2>7
      <4>2. ASSUME NEW s \in Reqs \ {r}, req'[s].pc = "respond"
            PROVE  req'[s].new \in Jtis /\ tokens'[req'[s].new].state # "unused"
        BY <2>6, <3>2, <4>2 DEF IInv, IssuedTokens
      <4> QED
        BY <4>1, <4>2
    <3> QED
      BY <3>1, <3>3, <3>4 DEF IssuedTokens
  <2>12. RotationSound'
    <3>1. req[r].jti # NoJti => /\ req[r].jti \in Jtis /\ req[r].jti # c
                               /\ tokens[req[r].jti].state \in {"revoked", "gone"}
                               /\ tokens[req[r].jti].user = u
      BY <1>t, <1>u, <2>1 DEF Shape, Presented, Kinds, Issuing, u
    <3>2. \A d \in Jtis \ {c} : parent[d] # NoJti =>
             /\ parent[d] \in Jtis /\ parent[d] # c
             /\ tokens[parent[d]].state \in {"revoked", "gone"}
             /\ tokens[parent[d]].user = tokens[d].user
      BY <1>t, <2>1 DEF IInv, RotationSound, TypeOK
    <3> QED
      BY <2>3, <2>4, <3>1, <3>2 DEF RotationSound
  <2>13. TokenOwnerExists'
    BY <1>2, <1>u, <2>2, <2>3 DEF IInv, TokenOwnerExists, u
  <2> QED
    BY <2>9, <2>10, <2>11, <2>12, <2>13 DEF IInv
<1> QED
  BY <1>1, <1>2 DEF Issue

\* The response only adds to what clients hold.
LEMMA RespondInv ==
    ASSUME IInv, NEW r \in Reqs, Respond(r)
    PROVE  IInv'
<1>t. TypeOK /\ req[r] \in Request
  BY DEF IInv, TypeOK
<1>u. /\ UNCHANGED <<users, banned, tokens, parent, clock>> /\ Observe
      /\ Goto(r, req[r], "idle")
  BY DEF Respond
<1>1. /\ req' \in [Reqs -> Request] /\ req'[r] = Idle
      /\ \A s \in Reqs \ {r} : req'[s] = req[s]
  BY <1>t, <1>u, GotoType DEF Pcs
<1>2. delivered' \subseteq Jtis /\ \A j \in delivered' : tokens[j].state # "unused"
  BY <1>t DEF Respond, IInv, IssuedTokens, TypeOK
<1>3. TokensAdvance
  BY <1>u DEF TokensAdvance
<1>4. ReqInv'
  BY <1>u, <1>1, <1>3, OneRequest DEF IInv
<1>5. TypeOK'
  BY <1>t, <1>u, <1>1, <1>2, ObserveType DEF TypeOK
<1>6. IssuedTokens'
  BY <1>u, <1>1, <1>2 DEF IInv, IssuedTokens, Idle
<1>7. RotationSound' /\ TokenOwnerExists'
  BY <1>u DEF IInv, RotationSound, TokenOwnerExists
<1> QED
  BY <1>4, <1>5, <1>6, <1>7 DEF IInv

\* The rest of the system: administrators, deletions, bans and time.
LEMMA OutsideInv ==
    ASSUME IInv,
           \/ \E u \in Users : SetActive(u) \/ DeleteUser(u) \/ ChangeBan(u)
           \/ Tick
    PROVE  IInv'
<1>t. TypeOK
  BY DEF IInv
<1>1. ASSUME NEW u \in Users, DeleteUser(u)
      PROVE  IInv'
  <2>1. /\ users' = [users EXCEPT ![u].here = FALSE] /\ banned' = banned \ {u}
        /\ tokens' = [j \in Jtis |->
              IF tokens[j].user = u THEN [tokens[j] EXCEPT !.state = "gone"] ELSE tokens[j]]
        /\ UNCHANGED <<delivered, parent, clock, req>> /\ Observe
    BY <1>1 DEF DeleteUser
  <2>2. /\ users' \in [Users -> UserRow]
        /\ \A v \in Users \ {u} : users'[v] = users[v]
    BY <1>t, <2>1 DEF TypeOK, UserRow
  <2>3. ASSUME NEW j \in Jtis
        PROVE  /\ tokens'[j] \in TokenRow /\ tokens'[j].user = tokens[j].user
               /\ tokens[j].user = u => tokens'[j].state = "gone"
               /\ tokens[j].user # u => tokens'[j] = tokens[j]
    BY <1>t, <2>1 DEF TypeOK, TokenRow
  <2>4. TokensAdvance
    BY <2>3 DEF TokensAdvance
  <2>5. TypeOK'
    <3>1. tokens' \in [Jtis -> TokenRow]
      BY <2>1, <2>3
    <3> QED
      BY <1>t, <2>1, <2>2, <3>1, ObserveType DEF TypeOK
  <2>6. IssuedTokens'
    BY <1>t, <2>1, <2>3 DEF IInv, IssuedTokens, TypeOK
  <2>7. RotationSound'
    BY <1>t, <2>1, <2>3 DEF IInv, RotationSound, TypeOK
  <2>8. TokenOwnerExists'
    BY <2>2, <2>3 DEF IInv, TokenOwnerExists
  <2> QED
    BY <2>1, <2>4, <2>5, <2>6, <2>7, <2>8, OutsideStep
<1>2. ASSUME NEW u \in Users, SetActive(u) \/ ChangeBan(u)
      PROVE  IInv'
  <2>1. /\ UNCHANGED <<tokens, delivered, parent, clock, req>> /\ Observe
        /\ users' \in [Users -> UserRow] /\ banned' \subseteq Users
        /\ \A v \in Users : users'[v].here = users[v].here
    <3>1. CASE SetActive(u)
      <4>1. users' = [users EXCEPT ![u] = [users[u] EXCEPT !.is_active = ~users[u].is_active]]
        BY <3>1, <1>t DEF SetActive, TypeOK
      <4>2. [users[u] EXCEPT !.is_active = ~users[u].is_active] \in UserRow
        BY <1>t, Zenon DEF TypeOK, UserRow
      <4>3. [users[u] EXCEPT !.is_active = ~users[u].is_active].here = users[u].here
        BY <1>t DEF TypeOK, UserRow
      <4> QED
        BY <3>1, <4>1, <4>2, <4>3, <1>t DEF SetActive, TypeOK
    <3>2. CASE ChangeBan(u)
      BY <3>2, <1>t DEF ChangeBan, TypeOK
    <3> QED
      BY <1>2, <3>1, <3>2
  <2>2. TokensAdvance /\ IssuedTokens' /\ RotationSound' /\ TokenOwnerExists'
    BY <2>1, QuietTokens
  <2>3. TypeOK'
    BY <1>t, <2>1, ObserveType DEF TypeOK
  <2> QED
    BY <2>1, <2>2, <2>3, OutsideStep
<1>3. ASSUME Tick
      PROVE  IInv'
  <2>1. /\ UNCHANGED <<users, banned, tokens, delivered, parent, req>> /\ Observe
        /\ clock' \in Nat
    BY <1>t, <1>3 DEF Tick, TypeOK
  <2>2. TokensAdvance /\ IssuedTokens' /\ RotationSound' /\ TokenOwnerExists'
    BY <2>1, QuietTokens
  <2>3. TypeOK'
    BY <1>t, <2>1, ObserveType DEF TypeOK
  <2> QED
    BY <2>1, <2>2, <2>3, OutsideStep
<1> QED
  BY <1>1, <1>2, <1>3

-----------------------------------------------------------------------------
\* Every step preserves IInv.
LEMMA NextInv == IInv /\ [Next]_vars => IInv'
<1> SUFFICES ASSUME IInv, [Next]_vars PROVE IInv'
  OBVIOUS
<1>1. CASE UNCHANGED vars
  BY <1>1 DEF vars, IInv, TypeOK, IssuedTokens, ReqInv, Shape, Presented, Witnessed,
              RotationSound, TokenOwnerExists
<1>2. ASSUME NEW r \in Reqs, Begin(r) PROVE IInv'
  BY <1>2, BeginInv
<1>3. ASSUME NEW r \in Reqs, Step(r) PROVE IInv'
  BY <1>3, ReadInv, LoadUserInv, RevalidateInv, UserWriteInv, RevokeInv, IssueInv,
     RespondInv DEF Step
<1>4. ASSUME NEW r \in Reqs, Crash(r) \/ Fault(r) PROVE IInv'
  BY <1>4, UserWriteInv DEF Crash, Fault
<1> QED
  BY <1>1, <1>2, <1>3, <1>4, OutsideInv DEF Next

\* IInv, the inductive invariant, always holds.
THEOREM Invariance == Spec => []IInv
BY InitInv, NextInv, PTL DEF Spec

\* Every variable keeps its type.
THEOREM TypeCorrect == Spec => []TypeOK
<1>1. IInv => TypeOK
  BY DEF IInv
<1> QED
  BY <1>1, Invariance, PTL

\* refresh_access_token: whatever requests run beside it, a token that has a
\* successor is revoked or deleted, and belongs to the successor's user.
THEOREM RotationSafe == Spec => []RotationSound
<1>1. IInv => RotationSound
  BY DEF IInv
<1> QED
  BY <1>1, Invariance, PTL

\* No deletion races an issue into a token without its user.
THEOREM OwnersExist == Spec => []TokenOwnerExists
<1>1. IInv => TokenOwnerExists
  BY DEF IInv
<1> QED
  BY <1>1, Invariance, PTL

-----------------------------------------------------------------------------
\* Only Issue turns an unused identifier into a live token.
LEMMA OnlyIssue ==
    ASSUME IInv, Next, NEW c \in Jtis,
           tokens[c].state = "unused", tokens'[c].state = "live"
    PROVE  \E r \in Reqs : Issue(r)
<1>1. ASSUME NEW r \in Reqs, Begin(r) PROVE FALSE
  BY <1>1 DEF Begin, BeginLogin, BeginToken, BeginDisable
<1>2. ASSUME NEW r \in Reqs, Revoke(r) PROVE FALSE
  BY <1>2 DEF Revoke, IInv, TypeOK, TokenRow
<1>3. ASSUME NEW r \in Reqs, Step(r), ~Issue(r), ~Revoke(r) PROVE FALSE
  BY <1>3 DEF Step, LoadToken, LoadUser, Enable, Reload, QueryBan, VerifyPassword,
              Revalidate, Respond, WriteDisable
<1>4. ASSUME NEW r \in Reqs, Crash(r) \/ Fault(r) PROVE FALSE
  BY <1>4 DEF Crash, Fault, Abort
<1>5. ASSUME NEW u \in Users, SetActive(u) \/ ChangeBan(u) PROVE FALSE
  BY <1>5 DEF SetActive, ChangeBan
<1>6. ASSUME NEW u \in Users, DeleteUser(u) PROVE FALSE
  BY <1>6 DEF DeleteUser, IInv, TypeOK, TokenRow
<1>7. ASSUME Tick PROVE FALSE
  BY <1>7 DEF Tick
<1> QED
  BY <1>1, <1>2, <1>3, <1>4, <1>5, <1>6, <1>7 DEF Next

\* Whoever is given a token was, while the request ran, active and - guests
\* apart - not banned and within the grace period; whoever rotates one
\* presented a token that was valid while the request ran.
THEOREM AdmissionIsJustified == Spec => AdmissionJustified
<1> DEFINE Admission ==
      \A c \in Jtis : tokens[c].state = "unused" /\ tokens'[c].state = "live" =>
         \E r \in Reqs : Issues(r, c) /\ Justified(r)
<1>1. IInv /\ [Next]_vars => [Admission]_vars
  <2> SUFFICES ASSUME IInv, Next, NEW c \in Jtis,
                      tokens[c].state = "unused", tokens'[c].state = "live"
               PROVE  \E r \in Reqs : Issues(r, c) /\ Justified(r)
    OBVIOUS
  <2>1. PICK r \in Reqs : Issue(r)
    BY OnlyIssue
  <2>2. /\ TypeOK /\ req[r] \in Request /\ req[r].pc = "issue"
        /\ req[r].op \in Issuing /\ Witnessed(req[r], seen[r])
    BY <2>1 DEF IInv, TypeOK, ReqInv, Issue, Shape
  <2>3. PICK d \in Jtis :
           /\ \E row \in TokenRow : tokens' = [tokens EXCEPT ![d] = row]
           /\ Goto(r, [req[r] EXCEPT !.new = d], "respond")
    <3>1. users[req[r].user].here
      BY <2>1 DEF Issue
    <3>2. PICK d \in Jtis :
             /\ tokens' = [tokens EXCEPT
                    ![d] = [state |-> "live", user |-> req[r].user, exp |-> clock + TokenLife]]
             /\ Goto(r, [req[r] EXCEPT !.new = d], "respond")
      BY <2>1, <3>1 DEF Issue
    <3>3. [state |-> "live", user |-> req[r].user, exp |-> clock + TokenLife] \in TokenRow
      BY <2>2, ConstantsAssumption DEF TypeOK, Request, TokenRow
    <3> QED
      BY <3>2, <3>3
  <2>4. d = c
    BY <2>2, <2>3 DEF TypeOK
  <2>5. req'[r].pc = "respond" /\ req'[r].new = c
    <3>1. [req[r] EXCEPT !.new = c] \in Request
      BY <2>2 DEF Request
    <3>2. req'[r] = [[req[r] EXCEPT !.new = c] EXCEPT !.pc = "respond"]
      BY <2>2, <2>3, <2>4, <3>1, GotoType DEF Pcs
    <3> QED
      BY <2>2, <3>2 DEF Request
  <2> QED
    BY <2>2, <2>5 DEF Issues, Justified, Witnessed
<1> QED
  BY <1>1, Invariance, PTL DEF Spec, AdmissionJustified

\* A self-disabled account is only re-enabled by a request of its own user that
\* saw it active and within the grace period.
THEOREM EnableIsJustified == Spec => EnableJustified
<1> DEFINE Enabling ==
      \A u \in Users : users[u].disabled_at # Never /\ users'[u].disabled_at = Never =>
         \E r \in Reqs : /\ req[r].pc = "enable" /\ req'[r].pc = "reload"
                         /\ req[r].user = u
                         /\ {"active", "within"} \subseteq seen[r]
<1>1. IInv /\ [Next]_vars => [Enabling]_vars
  <2> SUFFICES ASSUME IInv, Next, NEW u \in Users,
                      users[u].disabled_at # Never, users'[u].disabled_at = Never
               PROVE  \E r \in Reqs : /\ req[r].pc = "enable" /\ req'[r].pc = "reload"
                                      /\ req[r].user = u
                                      /\ {"active", "within"} \subseteq seen[r]
    OBVIOUS
  <2>1. ASSUME NEW r \in Reqs, WriteDisable(r) PROVE FALSE
    BY <2>1, ConstantsAssumption DEF WriteDisable, IInv, TypeOK, UserRow
  <2>2. ASSUME NEW v \in Users, SetActive(v) \/ DeleteUser(v) PROVE FALSE
    <3>1. users'[u].disabled_at = users[u].disabled_at
      <4>1. users \in [Users -> UserRow]
        BY DEF IInv, TypeOK
      <4>2. ASSUME NEW b, users' = [users EXCEPT ![v].is_active = b]
            PROVE  users'[u].disabled_at = users[u].disabled_at
        BY <4>1, <4>2 DEF UserRow
      <4>3. ASSUME NEW b, users' = [users EXCEPT ![v].here = b]
            PROVE  users'[u].disabled_at = users[u].disabled_at
        BY <4>1, <4>3 DEF UserRow
      <4> QED
        BY <2>2, <4>2, <4>3, Zenon DEF SetActive, DeleteUser
    <3> QED
      BY <3>1
  <2>3. PICK r \in Reqs : Enable(r)
    BY <2>1, <2>2 DEF Next, Begin, BeginLogin, BeginToken, BeginDisable, Step, LoadToken,
       LoadUser, Reload, QueryBan, VerifyPassword, Revoke, Revalidate, Issue, Respond,
       Crash, Fault, Abort, ChangeBan, Tick
  <2>4. /\ TypeOK /\ req[r] \in Request /\ req[r].pc = "enable" /\ Shape(req[r])
        /\ Witnessed(req[r], seen[r])
    BY <2>3 DEF IInv, TypeOK, ReqInv, Enable
  <2>5. req[r].user = u /\ Goto(r, req[r], "reload")
    BY <2>3, <2>4 DEF Enable, TypeOK, UserRow
  <2>6. req'[r].pc = "reload"
    <3>1. req'[r] = [req[r] EXCEPT !.pc = "reload"]
      BY <2>4, <2>5, GotoType DEF Pcs
    <3> QED
      BY <2>4, <3>1 DEF Request
  <2> QED
    BY <2>4, <2>5, <2>6 DEF Shape, Witnessed
<1> QED
  BY <1>1, Invariance, PTL DEF Spec, EnableJustified

-----------------------------------------------------------------------------
\* A token whose user is gone is not usable.
LEMMA UsableOwner ==
    ASSUME IInv, NEW j \in Jtis, Usable(tokens[j])
    PROVE  tokens[j].user \in Users /\ users[tokens[j].user].here
BY DEF IInv, TokenOwnerExists, Usable

\* A request whose next step is not the end is not over.
LEMMA GotoEnds ==
    ASSUME TypeOK, NEW r \in Reqs, NEW q \in Request, NEW pc, Goto(r, q, pc),
           req'[r].pc = "idle"
    PROVE  pc = "idle"
BY DEF Goto, TypeOK, Request

\* A statement of a logout that ends it leaves its token usable for one of three
\* reasons only.
LEMMA LogoutStep ==
    ASSUME IInv, NEW r \in Reqs, NEW j \in Jtis, Step(r),
           req[r].op = "logout", req[r].jti = j,
           req'[r].pc = "idle", Usable(tokens[j])'
    PROVE  LET u == req[r].user
           IN  u \in banned \/ ~users[u].is_active \/ ~WithinGrace(users[u])
<1> DEFINE u == req[r].user
<1>1. req[r] \in Request /\ Shape(req[r]) /\ Presented(req[r])
  BY DEF IInv, TypeOK, ReqInv
<1>2. CASE UNCHANGED <<tokens, clock>>
  <2>1. Usable(tokens[j])
    BY <1>2 DEF Usable
  <2>2. req[r].pc # "idle" => users[u].here
    BY <1>1, <2>1, UsableOwner DEF Presented
  <2>3. CASE LoadToken(r)
    <3>1. Goto(r, req[r], "user")
      BY <2>1, <2>3 DEF LoadToken
    <3> QED
      BY <1>1, <3>1, GotoEnds DEF IInv
  <2>4. CASE LoadUser(r)
    <3> DEFINE q == [req[r] EXCEPT !.row = users[u]]
    <3>1. u \in Users /\ q \in Request /\ q.op = "logout" /\ q.row = users[u] /\ q.user = u
      BY <1>1, <2>4 DEF LoadUser, Shape, Request, IInv, TypeOK
    <3>2. AfterStatus(q) \in Pcs /\ Goto(r, q, AfterStatus(q))
      BY <2>2, <2>4, <3>1, AfterStatusType DEF LoadUser
    <3>3. AfterStatus(q) = "idle"
      BY <3>1, <3>2, GotoEnds DEF IInv
    <3> HIDE DEF q
    <3> QED
      BY <3>1, <3>3 DEF AfterStatus, AfterValidation
  <2>5. CASE Enable(r) \/ Reload(r)
    <3> DEFINE q == [req[r] EXCEPT !.row = users[u]]
    <3>1. req[r].pc # "idle" /\ u \in Users /\ users[u].here
      BY <1>1, <2>2, <2>5 DEF Enable, Reload, Shape
    <3>2. q \in Request
      BY <1>1, <3>1 DEF Request, IInv, TypeOK
    <3>3. Goto(r, req[r], "reload") \/ Goto(r, q, "ban")
      BY <2>5, <3>1 DEF Enable, Reload
    <3> HIDE DEF q
    <3> QED
      BY <1>1, <3>2, <3>3, GotoEnds DEF IInv
  <2>6. CASE QueryBan(r)
    <3>1. AfterValidation(req[r]) \in Pcs /\ AfterValidation(req[r]) # "idle"
      BY DEF AfterValidation, Pcs
    <3>2. u \in banned \/ Goto(r, req[r], AfterValidation(req[r]))
      BY <2>6 DEF QueryBan
    <3> QED
      BY <1>1, <3>1, <3>2, GotoEnds DEF IInv
  <2>7. CASE Revoke(r)
    BY <1>1, <2>1, <2>7 DEF Revoke, Usable, IInv, TypeOK, TokenRow, Presented
  <2>8. CASE VerifyPassword(r) \/ Revalidate(r) \/ Issue(r) \/ Respond(r) \/ WriteDisable(r)
    BY <1>1, <2>8 DEF VerifyPassword, Revalidate, Issue, Respond, WriteDisable, Shape, Issuing
  <2> QED
    BY <2>3, <2>4, <2>5, <2>6, <2>7, <2>8 DEF Step
<1>3. CASE ~UNCHANGED <<tokens, clock>>
  <2>1. Revoke(r) \/ Issue(r)
    BY <1>3 DEF Step, LoadToken, LoadUser, Enable, Reload, QueryBan, VerifyPassword,
                Revalidate, Respond, WriteDisable
  <2>2. CASE Revoke(r)
    <3>1. tokens' = [tokens EXCEPT ![j].state = "revoked"]
      BY <1>3, <2>2 DEF Revoke
    <3> QED
      BY <3>1 DEF Usable, IInv, TypeOK
  <2>3. CASE Issue(r)
    BY <1>1, <2>3 DEF Issue, Shape, Issuing
  <2> QED
    BY <2>1, <2>2, <2>3
<1> QED
  BY <1>2, <1>3

\* A request in progress ends by a statement of its own, or is aborted.
LEMMA OnlyOwnEnd ==
    ASSUME IInv, Next, NEW r \in Busy, r \notin Busy'
    PROVE  Step(r) \/ Crash(r) \/ Fault(r)
<1>1. ASSUME NEW s \in Reqs \ {r}, NEW q, NEW pc, Goto(s, q, pc) PROVE FALSE
  BY <1>1 DEF Goto, Busy, IInv, TypeOK
<1>2. ASSUME NEW s \in Reqs \ {r}, Begin(s) \/ Crash(s) \/ Fault(s) PROVE FALSE
  BY <1>1, <1>2, Zenon DEF Begin, BeginLogin, BeginToken, BeginDisable, Crash, Fault, Abort
<1>3. ASSUME NEW s \in Reqs \ {r}, Step(s) PROVE FALSE
  <2>1. CASE LoadToken(s) \/ LoadUser(s) \/ Enable(s) \/ Reload(s) \/ QueryBan(s)
    BY <1>1, <2>1, Zenon DEF LoadToken, LoadUser, Enable, Reload, QueryBan
  <2>2. CASE VerifyPassword(s) \/ Revoke(s) \/ Revalidate(s)
    BY <1>1, <2>2, Zenon DEF VerifyPassword, Revoke, Revalidate
  <2>3. CASE Issue(s) \/ Respond(s) \/ WriteDisable(s)
    BY <1>1, <2>3, Zenon DEF Issue, Respond, WriteDisable
  <2> QED
    BY <1>3, <2>1, <2>2, <2>3 DEF Step
<1>4. ASSUME Begin(r) PROVE FALSE
  BY <1>4 DEF Begin, BeginLogin, BeginToken, BeginDisable, Busy
<1>5. ASSUME UNCHANGED req PROVE FALSE
  BY <1>5 DEF Busy
<1>6. ASSUME NEW u \in Users, SetActive(u) \/ DeleteUser(u) \/ ChangeBan(u) PROVE FALSE
  BY <1>5, <1>6 DEF SetActive, DeleteUser, ChangeBan
<1>7. ASSUME Tick PROVE FALSE
  BY <1>5, <1>7 DEF Tick
<1>8. r \in Reqs
  BY DEF Busy
<1> QED
  BY <1>2, <1>3, <1>4, <1>6, <1>7, <1>8 DEF Next

\* Whatever runs beside it, a logout leaves its token usable only if its user was
\* banned, deactivated or past the grace period, or the logout failed or died.
THEOREM LogoutIsHonest == Spec => LogoutHonest
<1> DEFINE A == \A r \in Reqs, j \in Jtis, u \in Users :
                 /\ req[r].op = "logout" /\ req[r].jti = j /\ req[r].user = u
                 /\ r \in Busy /\ r \notin Busy' /\ Usable(tokens[j])'
                 => \/ u \in banned \/ ~users[u].is_active \/ ~WithinGrace(users[u])
                    \/ ~Step(r) /\ (Fault(r) \/ Crash(r))
<1>1. IInv /\ Next => A
  <2> SUFFICES ASSUME IInv, Next, NEW r \in Reqs, NEW j \in Jtis, NEW u \in Users,
                      req[r].op = "logout", req[r].jti = j, req[r].user = u,
                      r \in Busy, r \notin Busy', Usable(tokens[j])',
                      ~(~Step(r) /\ (Fault(r) \/ Crash(r)))
               PROVE  u \in banned \/ ~users[u].is_active \/ ~WithinGrace(users[u])
    BY Zenon
  <2>1. Step(r)
    BY OnlyOwnEnd
  <2>2. req'[r].pc = "idle"
    BY DEF Busy
  <2> QED
    BY <2>1, <2>2, LogoutStep
<1>2. IInv /\ [Next]_vars => [A]_vars
  BY <1>1
<1> QED
  BY <1>2, Invariance, PTL DEF LogoutHonest, Spec
=============================================================================
