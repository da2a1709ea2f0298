-------------------------- MODULE OAuthFlowProofs ---------------------------
(* Safety of OAuthFlow for every set of browsers, logins, identities, request *)
(* slots and deployments.                                                     *)
EXTENDS OAuthFlow, TLAPS

USE DEF registration

\* A login nobody started is blank, and has an identity from the sign-in on.
LoginInv ==
    \A s \in Logins :
        /\ login[s].browser = NoBrowser => login[s].code = "none"
        /\ login[s].code \in {"none", "asked"} => login[s].identity = NoIdentity
        /\ login[s].code \in {"issued", "spent"} => login[s].identity \in Identities

\* A state cookie is that of a login of its own browser.
JarInv ==
    \A b \in Browsers : jar[b] # NoLogin => login[jar[b]].browser = b

\* Why a browser may not hold the cookie of its login s any more.
Disturbed(s, b) ==
    \/ \E t \in Logins \ {s} : login[t].browser = b
    \/ b \in answered
    \/ b \in expired

\* From the redirect on, a browser holds the cookie of its login or was disturbed.
KeptInv ==
    \A s \in Logins, b \in Browsers :
        login[s].browser = b /\ login[s].code # "none" => jar[b] = s \/ Disturbed(s, b)

\* What a request knows about its login; a completion has none.
RequestInv(r) ==
    LET q == req[r]
        s == q.login
    IN  /\ q.pc = "idle" => q = Idle
        /\ q.pc = "complete" => q.browser \in Browsers /\ q.identity \in posted[q.browser]
        /\ q.pc \notin {"idle", "complete"} => q.browser \in Browsers /\ s \in Logins
                                               /\ login[s].browser # NoBrowser
        /\ q.pc # "answer" => q.outcome = "none"
        /\ q.pc \in {"redirect", "exchange", "userinfo"} => q.identity = NoIdentity
        /\ q.pc \in {"redirect", "exchange", "userinfo", "authenticate"} =>
             login[s].browser = q.browser
        /\ q.pc = "exchange" => login[s].code \in {"issued", "spent"}
        /\ q.pc = "userinfo" => token[r] = login[s].identity /\ login[s].code = "spent"
        /\ q.pc = "authenticate" \/ q.outcome \in {"session", "pending"} =>
             q.identity # NoIdentity
        /\ q.pc # "complete" /\ q.identity # NoIdentity =>
             /\ q.identity = login[s].identity
             /\ login[s].browser = q.browser
             /\ login[s].code = "spent"
        /\ q.outcome = "state" /\ q.browser = login[s].browser =>
             Disturbed(s, q.browser) \/ login[s].provider = "apple"

\* A login whose redirect is on its way is known to that request alone.
RedirectInv ==
    /\ \A r \in Reqs : req[r].pc = "redirect" => login[req[r].login].code = "none"
    /\ \A r, u \in Reqs : req[r].pc = "redirect" /\ req[u].pc = "redirect"
                          /\ req[r].login = req[u].login => r = u

IInv ==
    /\ TypeOK
    /\ CheckConfigurations(settings)
    /\ LoginInv
    /\ JarInv
    /\ KeptInv
    /\ SessionOwned
    /\ RedirectInv
    /\ \A r \in Reqs : RequestInv(r)

\* What every step leaves as it is: the origin of a login, and its identity once
\* the user has signed in.
Advance ==
    /\ \A s \in Logins :
         /\ login[s].browser # NoBrowser =>
              /\ login'[s].browser = login[s].browser
              /\ login'[s].provider = login[s].provider
         /\ login[s].code \in {"issued", "spent", "denied"} =>
              /\ login'[s].identity = login[s].identity
              /\ login'[s].code \in {"issued", "spent", "denied"}
         /\ login[s].code \in {"issued", "spent"} => login'[s].code \in {"issued", "spent"}
         /\ login[s].code = "spent" => login'[s].code = "spent"
    /\ \A b \in Browsers : posted[b] \subseteq posted'[b]
    /\ answered \subseteq answered'
    /\ expired \subseteq expired'

-----------------------------------------------------------------------------
\* A disturbance stays one.
LEMMA DisturbedStays ==
    ASSUME TypeOK, Advance, NEW s \in Logins, NEW b \in Browsers, Disturbed(s, b)
    PROVE  Disturbed(s, b)'
BY ConstantsAssumption DEF Advance, Disturbed

\* A request that does not move still knows what it knew.
LEMMA StillKnown ==
    ASSUME TypeOK, Advance, NEW r \in Reqs, RequestInv(r), req'[r] = req[r],
           req[r].pc = "userinfo" => token'[r] = token[r]
    PROVE  RequestInv(r)'
<1>1. req[r].outcome = "state" => req[r].pc = "answer"
  BY DEF RequestInv, TypeOK, Request
<1>2. CASE req[r].pc = "idle"
  BY <1>2 DEF RequestInv, Idle
<1>4. CASE req[r].pc = "complete"
  BY <1>1, <1>4 DEF RequestInv, Advance
<1>3. CASE req[r].pc \notin {"idle", "complete"}
  <2>1. req[r].browser \in Browsers /\ req[r].login \in Logins
        /\ login[req[r].login].browser # NoBrowser
    BY <1>3 DEF RequestInv
  <2>2. Disturbed(req[r].login, req[r].browser) =>
          Disturbed(req[r].login, req[r].browser)'
    <3> SUFFICES ASSUME Disturbed(req[r].login, req[r].browser)
                 PROVE  Disturbed(req[r].login, req[r].browser)'
      OBVIOUS
    <3>1. (\E t \in Logins \ {req[r].login} : login'[t].browser = req[r].browser)
          \/ req[r].browser \in answered' \/ req[r].browser \in expired'
      BY <2>1, ConstantsAssumption DEF Disturbed, Advance
    <3> QED
      BY <3>1 DEF Disturbed
  <2> QED
    BY <1>1, <1>3, <2>1, <2>2 DEF RequestInv, Advance
<1> QED
  BY <1>2, <1>3, <1>4

\* An identity that signed in stays one that did.
LEMMA SignedInStays ==
    ASSUME TypeOK, Advance, LoginInv, NEW b \in Browsers, NEW i \in SignedIn(b),
           i # NoIdentity
    PROVE  i \in SignedIn(b)'
<1>1. PICK s \in Logins : login[s].browser = b /\ login[s].identity = i
  BY DEF SignedIn
<1>2. login[s].code \in {"issued", "spent", "denied"} /\ login[s].browser # NoBrowser
  BY <1>1, ConstantsAssumption DEF LoginInv, TypeOK, LoginRow
<1>3. login'[s].browser = b /\ login'[s].identity = i
  BY <1>1, <1>2 DEF Advance
<1> QED
  BY <1>3 DEF SignedIn

\* So does whatever a browser got by it.
LEMMA SessionStays ==
    ASSUME TypeOK, Advance, LoginInv, SessionOwned, UNCHANGED <<session, pending>>
    PROVE  SessionOwned'
<1> SUFFICES ASSUME NEW b \in Browsers
             PROVE  /\ pending[b] \subseteq SignedIn(b)'
                    /\ session[b] \in {NoIdentity} \cup SignedIn(b)' \cup posted'[b]
  BY DEF SessionOwned
<1>1. pending[b] \subseteq SignedIn(b)'
  <2> SUFFICES ASSUME NEW i \in pending[b] PROVE i \in SignedIn(b)'
    OBVIOUS
  <2>1. i \in SignedIn(b) /\ i # NoIdentity
    BY ConstantsAssumption DEF SessionOwned, TypeOK
  <2> QED
    BY <2>1, SignedInStays
<1>2. session[b] \in {NoIdentity} \cup SignedIn(b)' \cup posted'[b]
  BY SignedInStays DEF SessionOwned, Advance
<1> QED
  BY <1>1, <1>2

-----------------------------------------------------------------------------
\* The initial states.
LEMMA InitIInv == Init => IInv
<1> SUFFICES ASSUME Init PROVE IInv
  OBVIOUS
<1> USE ConstantsAssumption DEF Init
<1>1. TypeOK
  BY DEF TypeOK, LoginRow, Request, Outcomes, Idle, Providers
<1>2. CheckConfigurations(settings)
  OBVIOUS
<1>3. LoginInv /\ JarInv /\ KeptInv /\ SessionOwned
  BY DEF LoginInv, JarInv, KeptInv, SessionOwned
<1>4. RedirectInv
  BY DEF RedirectInv, Idle
<1>5. \A r \in Reqs : RequestInv(r)
  BY DEF RequestInv, Idle
<1> QED
  BY <1>1, <1>2, <1>3, <1>4, <1>5 DEF IInv

-----------------------------------------------------------------------------
(* A step that changes no login, cookie or session, and one request.          *)

\* What such a step preserves, given what its request knows after it.
LEMMA RequestStep ==
    ASSUME IInv, NEW r \in Reqs,
           UNCHANGED <<settings, login, jar, session, pending, answered, expired>>,
           posted' \in [Browsers -> SUBSET Identities],
           \A b \in Browsers : posted[b] \subseteq posted'[b],
           req' \in [Reqs -> Request], req'[r].pc # "redirect", RequestInv(r)',
           token' \in [Reqs \cup Providers -> Identities \cup {NoIdentity}],
           \A u \in Reqs \ {r} : req'[u] = req[u] /\ token'[u] = token[u]
    PROVE  IInv'
<1> USE DEF IInv
<1>1. TypeOK'
  BY DEF TypeOK
<1>2. Advance
  BY DEF Advance
<1>3. CheckConfigurations(settings)' /\ LoginInv' /\ JarInv' /\ KeptInv' /\ SessionOwned'
  <2>1. CheckConfigurations(settings)' /\ LoginInv' /\ JarInv'
    BY DEF LoginInv, JarInv
  <2>2. KeptInv'
    BY DEF KeptInv, Disturbed
  <2>3. SessionOwned'
    BY <1>2, SessionStays
  <2> QED
    BY <2>1, <2>2, <2>3
<1>4. RedirectInv'
  BY DEF RedirectInv, TypeOK
<1>5. ASSUME NEW u \in Reqs PROVE RequestInv(u)'
  <2>1. CASE u = r
    BY <2>1
  <2>2. CASE u # r
    BY <1>2, <2>2, StillKnown
  <2> QED
    BY <2>1, <2>2
<1> QED
  BY <1>1, <1>3, <1>4, <1>5

LEMMA CallbackKeeps ==
    ASSUME IInv, NEW r \in Reqs, NEW b \in Browsers, Callback(r, b) PROVE IInv'
<1> USE DEF IInv
<1>1. PICK s \in Logins :
        LET q == [Idle EXCEPT !.browser = b, !.login = s]
        IN  /\ login[s].code \in {"issued", "spent", "denied"}
            /\ \E cookie \in Carried(b, login[s].provider) :
                 IF login[s].code = "denied" THEN AnswerWith(r, q, "refused")
                 ELSE IF StateMatches(cookie, s) THEN Goto(r, q, "exchange")
                 ELSE AnswerWith(r, q, "state")
  BY DEF Callback
<1>2. UNCHANGED <<settings, login, jar, session, token, answered, expired, registration>>
  BY DEF Callback
<1>3. login[s].browser # NoBrowser
  BY <1>1 DEF LoginInv
<1> DEFINE After(pc, outcome) == [pc |-> pc, browser |-> b, login |-> s,
                                  identity |-> NoIdentity, outcome |-> outcome]
<1>4. \/ req' = [req EXCEPT ![r] = After("answer", "refused")]
      \/ /\ req' = [req EXCEPT ![r] = After("exchange", "none")] /\ login[s].browser = b
         /\ login[s].code \in {"issued", "spent"}
      \/ /\ req' = [req EXCEPT ![r] = After("answer", "state")]
         /\ login[s].browser = b => Disturbed(s, b) \/ login[s].provider = "apple"
  <2>1. PICK cookie \in Carried(b, login[s].provider) :
          LET q == [Idle EXCEPT !.browser = b, !.login = s]
          IN  IF login[s].code = "denied" THEN AnswerWith(r, q, "refused")
              ELSE IF StateMatches(cookie, s) THEN Goto(r, q, "exchange")
              ELSE AnswerWith(r, q, "state")
    BY <1>1
  <2>2. cookie = s => login[s].browser = b
    BY <2>1, ConstantsAssumption DEF Carried, JarInv
  <2>3. cookie # s /\ login[s].browser = b => Disturbed(s, b) \/ login[s].provider = "apple"
    BY <1>1, <2>1 DEF Carried, KeptInv, TypeOK, LoginRow, Providers
  <2>4. CASE login[s].code = "denied"
    BY <2>1, <2>4 DEF AnswerWith, Idle
  <2>5. CASE login[s].code # "denied" /\ cookie = s
    BY <1>1, <2>1, <2>2, <2>5 DEF Goto, StateMatches, Idle
  <2>6. CASE login[s].code # "denied" /\ cookie # s
    BY <2>1, <2>3, <2>6 DEF AnswerWith, StateMatches, Idle
  <2> QED
    BY <2>4, <2>5, <2>6
<1>5. /\ req' \in [Reqs -> Request] /\ req'[r].pc # "redirect"
      /\ \A u \in Reqs \ {r} : req'[u] = req[u] /\ token'[u] = token[u]
      /\ token' \in [Reqs \cup Providers -> Identities \cup {NoIdentity}]
  <2>1. /\ After("answer", "refused") \in Request
        /\ After("exchange", "none") \in Request
        /\ After("answer", "state") \in Request
    BY DEF Request, Outcomes
  <2> QED
    BY <1>2, <1>4, <2>1 DEF TypeOK
<1>6. RequestInv(r)'
  <2>1. CASE req' = [req EXCEPT ![r] = After("answer", "refused")]
    <3>1. req'[r] = After("answer", "refused")
      BY <2>1 DEF TypeOK
    <3> QED
      BY <1>2, <1>3, <3>1 DEF RequestInv
  <2>2. CASE /\ req' = [req EXCEPT ![r] = After("exchange", "none")] /\ login[s].browser = b
             /\ login[s].code \in {"issued", "spent"}
    <3>1. req'[r] = After("exchange", "none")
      BY <2>2 DEF TypeOK
    <3> QED
      BY <1>2, <1>3, <2>2, <3>1 DEF RequestInv
  <2>3. CASE /\ req' = [req EXCEPT ![r] = After("answer", "state")]
             /\ login[s].browser = b => Disturbed(s, b) \/ login[s].provider = "apple"
    <3>1. req'[r] = After("answer", "state")
      BY <2>3 DEF TypeOK
    <3>2. Disturbed(s, b) => Disturbed(s, b)'
      BY <1>2 DEF Disturbed
    <3> QED
      BY <1>2, <1>3, <2>3, <3>1, <3>2 DEF RequestInv, Disturbed
  <2> QED
    BY <1>4, <2>1, <2>2, <2>3
<1> QED
  BY <1>2, <1>5, <1>6, RequestStep DEF TypeOK

LEMMA UserInfoKeeps ==
    ASSUME IInv, NEW r \in Reqs, UserInfo(r) PROVE IInv'
<1> USE DEF IInv
<1> DEFINE q == req[r]
           s == q.login
<1>1. /\ q \in Request /\ q.pc = "userinfo" /\ q.outcome = "none" /\ q.identity = NoIdentity
      /\ q.browser \in Browsers /\ s \in Logins /\ login[s].browser = q.browser
      /\ login[s].browser # NoBrowser /\ token[r] = login[s].identity
      /\ login[s].code = "spent" /\ login[s].identity # NoIdentity
  BY ConstantsAssumption DEF UserInfo, RequestInv, TypeOK, LoginInv
<1>2. UNCHANGED <<settings, login, jar, session, token, answered, expired, registration>>
  BY DEF UserInfo
<1>3. \/ req' = [req EXCEPT ![r] = [q EXCEPT !.pc = "answer", !.outcome = "refused"]]
      \/ req' = [req EXCEPT ![r] = [q EXCEPT !.pc = "authenticate",
                                             !.identity = login[s].identity]]
  BY <1>1 DEF UserInfo, AnswerWith, Goto, ClientOf, TypeOK, Request
<1>4. \/ req'[r] = [q EXCEPT !.pc = "answer", !.outcome = "refused"]
      \/ req'[r] = [q EXCEPT !.pc = "authenticate", !.identity = login[s].identity]
  BY <1>3 DEF TypeOK
<1>5. req'[r] \in Request
  BY <1>1, <1>4 DEF TypeOK, Request, LoginRow, Outcomes
<1>6. /\ req' \in [Reqs -> Request] /\ req'[r].pc # "redirect"
      /\ \A u \in Reqs \ {r} : req'[u] = req[u] /\ token'[u] = token[u]
      /\ token' \in [Reqs \cup Providers -> Identities \cup {NoIdentity}]
  <2>1. req'[r].pc # "redirect"
    BY <1>1, <1>4 DEF Request
  <2>2. req' \in [Reqs -> Request] /\ \A u \in Reqs \ {r} : req'[u] = req[u]
    BY <1>3, <1>5 DEF TypeOK
  <2> QED
    BY <1>2, <2>1, <2>2 DEF TypeOK
<1>7. RequestInv(r)'
  <2>1. CASE req'[r] = [q EXCEPT !.pc = "answer", !.outcome = "refused"]
    BY <1>1, <1>2, <2>1 DEF RequestInv, Request
  <2>2. CASE req'[r] = [q EXCEPT !.pc = "authenticate", !.identity = login[s].identity]
    <3>1. /\ req'[r].pc = "authenticate" /\ req'[r].identity = login[s].identity
          /\ req'[r].browser = q.browser /\ req'[r].login = s
          /\ req'[r].outcome = "none"
      BY <1>1, <2>2 DEF Request
    <3> QED
      BY <1>1, <1>2, <3>1 DEF RequestInv
  <2> QED
    BY <1>4, <2>1, <2>2
<1> QED
  BY <1>2, <1>6, <1>7, RequestStep DEF TypeOK

LEMMA AuthenticateKeeps ==
    ASSUME IInv, NEW r \in Reqs, Authenticate(r) PROVE IInv'
<1> USE DEF IInv
<1> DEFINE q == req[r]
<1>1. q \in Request /\ q.pc = "authenticate"
  BY DEF Authenticate, TypeOK
<1>2. UNCHANGED <<settings, login, jar, session, token, answered, expired, registration>>
  BY DEF Authenticate
<1>3. PICK outcome \in {"session", "pending", "refused"} :
        req' = [req EXCEPT ![r] = [q EXCEPT !.pc = "answer", !.outcome = outcome]]
  BY DEF Authenticate, AnswerWith
<1>4. req'[r] = [q EXCEPT !.pc = "answer", !.outcome = outcome] /\ req'[r] \in Request
  BY <1>1, <1>3 DEF TypeOK, Request, Outcomes
<1>5. /\ req' \in [Reqs -> Request] /\ req'[r].pc # "redirect"
      /\ \A u \in Reqs \ {r} : req'[u] = req[u] /\ token'[u] = token[u]
      /\ token' \in [Reqs \cup Providers -> Identities \cup {NoIdentity}]
  BY <1>1, <1>2, <1>3, <1>4 DEF TypeOK, Request
<1>6. RequestInv(r)'
  BY <1>1, <1>2, <1>4 DEF RequestInv, Request
<1> QED
  BY <1>2, <1>5, <1>6, RequestStep DEF TypeOK

LEMMA CrashKeeps ==
    ASSUME IInv, NEW r \in Reqs, Crash(r) PROVE IInv'
<1> USE DEF IInv
<1>1. req' = [req EXCEPT ![r] = Idle] /\ Idle \in Request
  BY DEF Crash, Request, Idle, Outcomes
<1>2. UNCHANGED <<settings, login, jar, session, token, answered, expired, registration>>
  BY DEF Crash
<1>3. req'[r] = Idle
  BY <1>1 DEF TypeOK
<1>4. RequestInv(r)'
  BY <1>3 DEF RequestInv, Idle
<1> QED
  BY <1>1, <1>2, <1>3, <1>4, RequestStep DEF TypeOK, Idle

LEMMA ExchangeKeeps ==
    ASSUME IInv, NEW r \in Reqs, Exchange(r) PROVE IInv'
<1> USE DEF IInv
<1> DEFINE q == req[r]
           s == q.login
           i == login[s].identity
<1>1. /\ q \in Request /\ q.pc = "exchange" /\ q.outcome = "none" /\ q.identity = NoIdentity
      /\ q.browser \in Browsers /\ s \in Logins /\ login[s].browser = q.browser
      /\ login[s].browser # NoBrowser /\ i # NoIdentity
  BY ConstantsAssumption DEF Exchange, RequestInv, TypeOK, LoginInv
<1>2. UNCHANGED <<settings, jar, session, answered, expired, registration>>
  BY DEF Exchange
<1>3. req'[r].pc # "redirect" /\ req' \in [Reqs -> Request]
      /\ \A u \in Reqs \ {r} : req'[u] = req[u]
  <2>1. \/ req' = [req EXCEPT ![r] = [q EXCEPT !.pc = "answer", !.outcome = "refused"]]
        \/ req' = [req EXCEPT ![r] = [q EXCEPT !.pc = "userinfo"]]
        \/ req' = [req EXCEPT ![r] = [q EXCEPT !.identity = i, !.pc = "authenticate"]]
    BY DEF Exchange, AnswerWith, Goto
  <2>2. /\ [q EXCEPT !.pc = "answer", !.outcome = "refused"] \in Request
        /\ [q EXCEPT !.pc = "userinfo"] \in Request
        /\ [q EXCEPT !.identity = i, !.pc = "authenticate"] \in Request
    BY <1>1 DEF TypeOK, Request, Outcomes, LoginRow
  <2>3. PICK w \in Request : req' = [req EXCEPT ![r] = w] /\ w.pc # "redirect"
    BY <1>1, <2>1, <2>2 DEF Request
  <2> QED
    BY <2>3 DEF TypeOK
<1>4. CASE UNCHANGED login /\ UNCHANGED token
            /\ AnswerWith(r, q, "refused")
  <2>1. req'[r] = [q EXCEPT !.pc = "answer", !.outcome = "refused"]
    BY <1>4 DEF AnswerWith, TypeOK
  <2>2. RequestInv(r)'
    BY <1>1, <1>4, <2>1 DEF RequestInv, Request
  <2> QED
    BY <1>2, <1>3, <1>4, <2>2, RequestStep DEF TypeOK
<1>5. CASE /\ login[s].code = "issued"
           /\ login' = [login EXCEPT ![s].code = "spent"]
           /\ \/ AnswerWith(r, q, "refused") /\ UNCHANGED token
              \/ /\ token' = [token EXCEPT ![ClientOf(r, login[s].provider)] = i]
                 /\ IF login[s].provider = "google" THEN Goto(r, q, "userinfo")
                    ELSE Goto(r, [q EXCEPT !.identity = i], "authenticate")
  <2>1. /\ login' \in [Logins -> LoginRow]
        /\ \A t \in Logins : /\ login'[t].browser = login[t].browser
                              /\ login'[t].provider = login[t].provider
                              /\ login'[t].identity = login[t].identity
        /\ \A t \in Logins \ {s} : login'[t] = login[t]
        /\ login'[s].code = "spent"
    BY <1>1, <1>5 DEF TypeOK, LoginRow
  <2>2. token' \in [Reqs \cup Providers -> Identities \cup {NoIdentity}]
        /\ \A u \in Reqs \ {r} : token'[u] = token[u]
    BY <1>1, <1>5, ConstantsAssumption DEF TypeOK, LoginRow, Providers, ClientOf
  <2>3. TypeOK'
    BY <1>2, <1>3, <2>1, <2>2 DEF TypeOK
  <2>4. Advance
    BY <1>2, <1>5, <2>1 DEF Advance
  <2>5. CheckConfigurations(settings)' /\ LoginInv' /\ JarInv' /\ SessionOwned'
    <3>1. CheckConfigurations(settings)'
      BY <1>2
    <3>2. LoginInv'
      <4>1. login[s].identity \in Identities
        BY <1>1, <1>5 DEF LoginInv
      <4> SUFFICES ASSUME NEW t \in Logins
                   PROVE  /\ login'[t].browser = NoBrowser => login'[t].code = "none"
                          /\ login'[t].code \in {"none", "asked"} =>
                               login'[t].identity = NoIdentity
                          /\ login'[t].code \in {"issued", "spent"} =>
                               login'[t].identity \in Identities
        BY DEF LoginInv
      <4> QED
        BY <1>1, <2>1, <4>1 DEF LoginInv
    <3>3. JarInv'
      BY <1>2, <2>1 DEF JarInv, TypeOK
    <3>4. SessionOwned'
      BY <1>2, <2>4, SessionStays
    <3> QED
      BY <3>1, <3>2, <3>3, <3>4
  <2>6. KeptInv'
    BY <1>2, <1>5, <2>1 DEF KeptInv, Disturbed
  <2>7. RedirectInv'
    BY <1>3, <1>5, <2>1 DEF RedirectInv, TypeOK
  <2>8. RequestInv(r)'
    <3>1. CASE AnswerWith(r, q, "refused")
      <4>1. req'[r] = [q EXCEPT !.pc = "answer", !.outcome = "refused"]
        BY <3>1 DEF AnswerWith, TypeOK
      <4> QED
        BY <1>1, <2>1, <4>1 DEF RequestInv, Request
    <3>2. CASE /\ token' = [token EXCEPT ![ClientOf(r, login[s].provider)] = i]
               /\ login[s].provider = "google" /\ Goto(r, q, "userinfo")
      <4>1. req'[r] = [q EXCEPT !.pc = "userinfo"] /\ token'[r] = i
        BY <3>2 DEF Goto, ClientOf, TypeOK
      <4> QED
        BY <1>1, <2>1, <4>1 DEF RequestInv, Request
    <3>3. CASE Goto(r, [q EXCEPT !.identity = i], "authenticate")
      <4>1. req'[r] = [q EXCEPT !.identity = i, !.pc = "authenticate"]
        BY <3>3 DEF Goto, TypeOK
      <4> QED
        BY <1>1, <2>1, <4>1 DEF RequestInv, Request
    <3> QED
      BY <1>5, <3>1, <3>2, <3>3
  <2>9. ASSUME NEW u \in Reqs PROVE RequestInv(u)'
    <3>1. CASE u # r
      BY <1>3, <2>2, <2>4, <3>1, StillKnown
    <3> QED
      BY <2>8, <3>1
  <2> QED
    BY <2>3, <2>5, <2>6, <2>7, <2>9
<1> QED
  BY <1>4, <1>5 DEF Exchange

-----------------------------------------------------------------------------
(* Logins, cookies and sessions.                                              *)

LEMMA StartLoginKeeps ==
    ASSUME IInv, NEW r \in Reqs, NEW b \in Browsers, StartLogin(r, b) PROVE IInv'
<1> USE DEF IInv
<1>1. PICK p \in Providers, s \in Logins :
        /\ login[s].browser = NoBrowser
        /\ login' = [login EXCEPT ![s].browser = b, ![s].provider = p]
        /\ req' = [req EXCEPT ![r] = [[Idle EXCEPT !.browser = b, !.login = s]
                                         EXCEPT !.pc = "redirect"]]
  BY DEF StartLogin, Goto
<1>2. UNCHANGED <<settings, jar, session, token, answered, expired, registration>>
  BY DEF StartLogin
<1>3. /\ req' \in [Reqs -> Request] /\ \A u \in Reqs \ {r} : req'[u] = req[u]
      /\ req'[r].pc = "redirect" /\ req'[r].browser = b /\ req'[r].login = s
      /\ req'[r].identity = NoIdentity /\ req'[r].outcome = "none"
  BY <1>1 DEF TypeOK, Request, Idle, Outcomes
<1>4. /\ login' \in [Logins -> LoginRow]
      /\ \A t \in Logins \ {s} : login'[t] = login[t]
      /\ login'[s].browser = b /\ login'[s].code = "none" /\ login[s].code = "none"
      /\ login'[s].identity = NoIdentity
  BY <1>1 DEF TypeOK, LoginRow, LoginInv
<1>5. TypeOK'
  BY <1>2, <1>3, <1>4 DEF TypeOK
<1>6. Advance
  BY <1>1, <1>2, <1>4 DEF Advance
<1>7. CheckConfigurations(settings)' /\ LoginInv' /\ JarInv' /\ SessionOwned'
  <2>1. CheckConfigurations(settings)'
    BY <1>2
  <2>2. LoginInv'
    BY <1>4, ConstantsAssumption DEF LoginInv
  <2>3. JarInv'
    BY <1>1, <1>2, <1>4, ConstantsAssumption DEF JarInv, TypeOK
  <2>4. SessionOwned'
    BY <1>2, <1>6, SessionStays
  <2> QED
    BY <2>1, <2>2, <2>3, <2>4
<1>8. KeptInv'
  <2> SUFFICES ASSUME NEW t \in Logins, NEW c \in Browsers,
                      login'[t].browser = c, login'[t].code # "none"
               PROVE  jar'[c] = t \/ Disturbed(t, c)'
    BY DEF KeptInv
  <2>1. t # s /\ login[t].browser = c /\ login[t].code # "none"
    BY <1>4
  <2>2. jar[c] = t \/ Disturbed(t, c)
    BY <2>1 DEF KeptInv
  <2>3. Disturbed(t, c) => Disturbed(t, c)'
    BY <1>6, DisturbedStays
  <2> QED
    BY <1>2, <2>2, <2>3
<1>9. RedirectInv'
  <2>1. \A u \in Reqs \ {r} : req[u].pc = "redirect" => req[u].login # s
    BY <1>1 DEF RequestInv
  <2> QED
    BY <1>3, <1>4, <2>1 DEF RedirectInv, RequestInv
<1>10. ASSUME NEW u \in Reqs PROVE RequestInv(u)'
  <2>1. CASE u # r
    BY <1>2, <1>3, <1>6, <2>1, StillKnown
  <2>2. CASE u = r
    BY <1>3, <1>4, <2>2, ConstantsAssumption DEF RequestInv
  <2> QED
    BY <2>1, <2>2
<1> QED
  BY <1>5, <1>7, <1>8, <1>9, <1>10

LEMMA RedirectKeeps ==
    ASSUME IInv, NEW r \in Reqs, Redirect(r) PROVE IInv'
<1> USE DEF IInv
<1> DEFINE q == req[r]
           s == q.login
           b == q.browser
<1>1. /\ q.pc = "redirect" /\ b \in Browsers /\ s \in Logins /\ login[s].browser = b
      /\ login[s].code = "none"
  BY DEF Redirect, RequestInv, RedirectInv
<1>2. /\ UNCHANGED <<settings, session, token, answered, expired, registration>>
      /\ jar' = [jar EXCEPT ![b] = s] /\ login' = [login EXCEPT ![s].code = "asked"]
      /\ req' = [req EXCEPT ![r] = Idle]
  BY DEF Redirect
<1>3. /\ req' \in [Reqs -> Request] /\ req'[r] = Idle
      /\ \A u \in Reqs \ {r} : req'[u] = req[u]
  BY <1>2 DEF TypeOK, Request, Idle, Outcomes
<1>4. /\ login' \in [Logins -> LoginRow]
      /\ \A t \in Logins \ {s} : login'[t] = login[t]
      /\ login'[s].browser = b /\ login'[s].code = "asked"
      /\ login'[s].identity = login[s].identity /\ login'[s].provider = login[s].provider
  BY <1>1, <1>2 DEF TypeOK, LoginRow
<1>5. TypeOK'
  BY <1>1, <1>2, <1>3, <1>4 DEF TypeOK
<1>6. Advance
  BY <1>1, <1>2, <1>4 DEF Advance
<1>7. CheckConfigurations(settings)' /\ LoginInv' /\ JarInv' /\ SessionOwned'
  <2>1. CheckConfigurations(settings)'
    BY <1>2
  <2>2. LoginInv'
    BY <1>1, <1>4, ConstantsAssumption DEF LoginInv
  <2>3. JarInv'
    BY <1>1, <1>2, <1>4 DEF JarInv, TypeOK
  <2>4. SessionOwned'
    BY <1>2, <1>6, SessionStays
  <2> QED
    BY <2>1, <2>2, <2>3, <2>4
<1>8. KeptInv'
  <2> SUFFICES ASSUME NEW t \in Logins, NEW c \in Browsers,
                      login'[t].browser = c, login'[t].code # "none"
               PROVE  jar'[c] = t \/ Disturbed(t, c)'
    BY DEF KeptInv
  <2>1. CASE t = s
    BY <1>1, <1>2, <1>4, <2>1 DEF TypeOK
  <2>2. CASE t # s /\ c = b
    BY <1>1, <1>4, <2>2 DEF Disturbed
  <2>3. CASE t # s /\ c # b
    <3>1. jar[c] = t \/ Disturbed(t, c)
      BY <1>4, <2>3 DEF KeptInv
    <3>2. Disturbed(t, c) => Disturbed(t, c)'
      BY <1>6, DisturbedStays
    <3> QED
      BY <1>2, <2>3, <3>1, <3>2 DEF TypeOK
  <2> QED
    BY <2>1, <2>2, <2>3
<1>9. RedirectInv'
  <2>1. \A u \in Reqs \ {r} : req[u].pc = "redirect" =>
            req[u].login # s /\ req[u].login \in Logins
    BY <1>1 DEF RedirectInv, RequestInv
  <2> QED
    BY <1>3, <1>4, <2>1 DEF RedirectInv, Idle
<1>10. ASSUME NEW u \in Reqs PROVE RequestInv(u)'
  <2>1. CASE u # r
    BY <1>2, <1>3, <1>6, <2>1, StillKnown
  <2>2. CASE u = r
    BY <1>3, <2>2 DEF RequestInv, Idle
  <2> QED
    BY <2>1, <2>2
<1> QED
  BY <1>5, <1>7, <1>8, <1>9, <1>10

LEMMA SignInKeeps ==
    ASSUME IInv, NEW s \in Logins, SignIn(s) PROVE IInv'
<1> USE DEF IInv
<1>1. /\ UNCHANGED <<settings, jar, session, token, req, answered, expired, registration>>
      /\ login[s].code = "asked" /\ login[s].browser # NoBrowser
  BY DEF SignIn, LoginInv
<1>2. /\ login' \in [Logins -> LoginRow]
      /\ \A t \in Logins \ {s} : login'[t] = login[t]
      /\ login'[s].browser = login[s].browser /\ login'[s].provider = login[s].provider
      /\ login'[s].code \in {"issued", "denied"}
      /\ login'[s].code = "issued" => login'[s].identity \in Identities
  BY DEF SignIn, TypeOK, LoginRow
<1>3. TypeOK'
  BY <1>1, <1>2 DEF TypeOK
<1>4. Advance
  BY <1>1, <1>2 DEF Advance
<1>5. CheckConfigurations(settings)' /\ LoginInv' /\ JarInv' /\ SessionOwned'
  <2>1. CheckConfigurations(settings)'
    BY <1>1
  <2>2. LoginInv'
    <3> SUFFICES ASSUME NEW t \in Logins
                 PROVE  /\ login'[t].browser = NoBrowser => login'[t].code = "none"
                        /\ login'[t].code \in {"none", "asked"} =>
                             login'[t].identity = NoIdentity
                        /\ login'[t].code \in {"issued", "spent"} =>
                             login'[t].identity \in Identities
      BY DEF LoginInv
    <3> QED
      BY <1>1, <1>2 DEF LoginInv
  <2>3. JarInv'
    BY <1>1, <1>2 DEF JarInv, TypeOK
  <2>4. SessionOwned'
    BY <1>1, <1>4, SessionStays
  <2> QED
    BY <2>1, <2>2, <2>3, <2>4
<1>6. KeptInv'
  <2> SUFFICES ASSUME NEW t \in Logins, NEW c \in Browsers,
                      login'[t].browser = c, login'[t].code # "none"
               PROVE  jar'[c] = t \/ Disturbed(t, c)'
    BY DEF KeptInv
  <2>1. jar[c] = t \/ Disturbed(t, c)
    BY <1>1, <1>2 DEF KeptInv
  <2>2. Disturbed(t, c) => Disturbed(t, c)'
    BY <1>4, DisturbedStays
  <2> QED
    BY <1>1, <2>1, <2>2
<1>7. RedirectInv'
  BY <1>1, <1>2 DEF RedirectInv, RequestInv
<1>8. ASSUME NEW u \in Reqs PROVE RequestInv(u)'
  BY <1>1, <1>4, StillKnown
<1> QED
  BY <1>3, <1>5, <1>6, <1>7, <1>8

LEMMA ArriveKeeps ==
    ASSUME IInv, NEW r \in Reqs, Arrive(r) PROVE IInv'
<1> USE DEF IInv
<1> DEFINE q == req[r]
           b == q.browser
<1>1. q \in Request /\ q.pc = "answer" /\ b \in Browsers /\ q.login \in Logins
  BY DEF Arrive, RequestInv, TypeOK
<1>2. /\ UNCHANGED <<settings, login, token, posted, expired>>
      /\ jar' = [jar EXCEPT ![b] = NoLogin] /\ answered' = answered \cup {b}
      /\ session' = IF q.outcome = "session"
                    THEN [session EXCEPT ![b] = q.identity] ELSE session
      /\ pending' = IF q.outcome = "pending"
                    THEN [pending EXCEPT ![b] = @ \cup {q.identity}] ELSE pending
      /\ req' = [req EXCEPT ![r] = Idle]
  BY DEF Arrive
<1>3. /\ req' \in [Reqs -> Request] /\ req'[r] = Idle
      /\ \A u \in Reqs \ {r} : req'[u] = req[u]
  BY <1>2 DEF TypeOK, Request, Idle, Outcomes
<1>0. q.outcome \in {"session", "pending"} =>
          q.identity \in Identities /\ q.identity \in SignedIn(b)
  BY <1>1 DEF RequestInv, SignedIn, Request
<1>4. TypeOK'
  BY <1>1, <1>2, <1>3, <1>0 DEF TypeOK, Request
<1>5. Advance
  BY <1>2 DEF Advance
<1>6. CheckConfigurations(settings)' /\ LoginInv' /\ JarInv'
  BY <1>1, <1>2 DEF LoginInv, JarInv, TypeOK
<1>7. SessionOwned'
  <2> SUFFICES ASSUME NEW c \in Browsers
               PROVE  /\ pending'[c] \subseteq SignedIn(c)
                      /\ session'[c] \in {NoIdentity} \cup SignedIn(c) \cup posted[c]
    BY <1>2 DEF SessionOwned, SignedIn
  <2>1. pending'[c] \subseteq SignedIn(c)
    BY <1>0, <1>1, <1>2 DEF SessionOwned, TypeOK
  <2>2. session'[c] \in {NoIdentity} \cup SignedIn(c) \cup posted[c]
    BY <1>0, <1>1, <1>2 DEF SessionOwned, TypeOK
  <2> QED
    BY <2>1, <2>2
<1>8. KeptInv'
  BY <1>1, <1>2 DEF KeptInv, Disturbed, TypeOK
<1>9. RedirectInv'
  BY <1>2, <1>3 DEF RedirectInv, Idle
<1>10. ASSUME NEW u \in Reqs PROVE RequestInv(u)'
  <2>1. CASE u # r
    BY <1>2, <1>3, <1>5, <2>1, StillKnown
  <2>2. CASE u = r
    BY <1>3, <2>2 DEF RequestInv, Idle
  <2> QED
    BY <2>1, <2>2
<1> QED
  BY <1>4, <1>6, <1>7, <1>8, <1>9, <1>10

\* A completion is known by what it posts.
LEMMA CompleteKeeps ==
    ASSUME IInv, NEW r \in Reqs, NEW b \in Browsers, Complete(r, b) PROVE IInv'
<1> USE DEF IInv
<1>1. PICK i \in UNION {pending[c] : c \in Browsers} :
        /\ req' = [req EXCEPT ![r] = [[Idle EXCEPT !.browser = b, !.identity = i]
                                         EXCEPT !.pc = "complete"]]
        /\ posted' = [posted EXCEPT ![b] = @ \cup {i}]
  BY DEF Complete, Goto
<1>2. UNCHANGED <<settings, login, jar, session, pending, token, answered, expired>>
  BY DEF Complete
<1>3. i \in Identities
  BY DEF TypeOK
<1>4. /\ req' \in [Reqs -> Request] /\ \A u \in Reqs \ {r} : req'[u] = req[u]
      /\ req'[r].pc = "complete" /\ req'[r].browser = b /\ req'[r].login = NoLogin
      /\ req'[r].identity = i /\ req'[r].outcome = "none"
  BY <1>1, <1>3 DEF TypeOK, Request, Idle, Outcomes
<1>5. /\ posted' \in [Browsers -> SUBSET Identities] /\ i \in posted'[b]
      /\ \A c \in Browsers : posted[c] \subseteq posted'[c]
  BY <1>1, <1>3 DEF TypeOK
<1>6. RequestInv(r)'
  BY <1>4, <1>5 DEF RequestInv
<1> QED
  BY <1>2, <1>4, <1>5, <1>6, RequestStep DEF TypeOK

LEMMA CompletedKeeps ==
    ASSUME IInv, NEW r \in Reqs, Completed(r) PROVE IInv'
<1> USE DEF IInv
<1> DEFINE q == req[r]
           b == q.browser
<1>1. b \in Browsers /\ q.identity \in posted[b] /\ q.identity \in Identities
  BY DEF Completed, RequestInv, TypeOK
<1>2. /\ UNCHANGED <<settings, login, jar, token, answered, expired, registration>>
      /\ session' = [session EXCEPT ![b] = q.identity]
      /\ req' = [req EXCEPT ![r] = Idle]
  BY DEF Completed
<1>3. /\ req' \in [Reqs -> Request] /\ req'[r] = Idle
      /\ \A u \in Reqs \ {r} : req'[u] = req[u]
  BY <1>2 DEF TypeOK, Request, Idle, Outcomes
<1>4. TypeOK'
  BY <1>1, <1>2, <1>3 DEF TypeOK
<1>5. Advance
  BY <1>2 DEF Advance
<1>6. CheckConfigurations(settings)' /\ LoginInv' /\ JarInv'
  BY <1>2 DEF LoginInv, JarInv
<1>7. SessionOwned'
  BY <1>1, <1>2 DEF SessionOwned, SignedIn, TypeOK
<1>8. KeptInv'
  BY <1>2 DEF KeptInv, Disturbed
<1>9. RedirectInv'
  BY <1>2, <1>3 DEF RedirectInv, Idle
<1>10. ASSUME NEW u \in Reqs PROVE RequestInv(u)'
  <2>1. CASE u # r
    BY <1>2, <1>3, <1>5, <2>1, StillKnown
  <2>2. CASE u = r
    BY <1>3, <2>2 DEF RequestInv, Idle
  <2> QED
    BY <2>1, <2>2
<1> QED
  BY <1>4, <1>6, <1>7, <1>8, <1>9, <1>10

LEMMA ExpireKeeps ==
    ASSUME IInv, NEW b \in Browsers, Expire(b) PROVE IInv'
<1> USE DEF IInv
<1>1. /\ UNCHANGED <<settings, login, session, token, req, answered, registration>>
      /\ jar' = [jar EXCEPT ![b] = NoLogin] /\ expired' = expired \cup {b}
  BY DEF Expire
<1>2. TypeOK'
  BY <1>1 DEF TypeOK
<1>3. Advance
  BY <1>1 DEF Advance
<1>4. CheckConfigurations(settings)' /\ LoginInv' /\ JarInv'
  BY <1>1 DEF LoginInv, JarInv, TypeOK
<1>8. SessionOwned'
  BY <1>1, <1>3, SessionStays
<1>5. KeptInv'
  BY <1>1 DEF KeptInv, Disturbed, TypeOK
<1>6. RedirectInv'
  BY <1>1 DEF RedirectInv
<1>7. ASSUME NEW u \in Reqs PROVE RequestInv(u)'
  BY <1>1, <1>3, StillKnown
<1> QED
  BY <1>2, <1>4, <1>5, <1>6, <1>7, <1>8

-----------------------------------------------------------------------------
\* Every step preserves the inductive invariant.
LEMMA NextIInv == IInv /\ [Next]_vars => IInv'
<1> SUFFICES ASSUME IInv, [Next]_vars PROVE IInv'
  OBVIOUS
<1>1. CASE UNCHANGED vars
  <2>1. \A r \in Reqs : RequestInv(r)'
    BY <1>1 DEF IInv, RequestInv, Disturbed, vars
  <2> QED
    BY <1>1, <2>1 DEF IInv, TypeOK, LoginInv, JarInv, KeptInv, Disturbed, SessionOwned,
                      SignedIn, RedirectInv, vars
<1>2. ASSUME NEW r \in Reqs, NEW b \in Browsers,
             StartLogin(r, b) \/ Callback(r, b) \/ Complete(r, b)
      PROVE  IInv'
  BY <1>2, StartLoginKeeps, CallbackKeeps, CompleteKeeps
<1>3. ASSUME NEW r \in Reqs,
             \/ Redirect(r) \/ Exchange(r) \/ UserInfo(r)
             \/ Authenticate(r) \/ Arrive(r) \/ Completed(r) \/ Crash(r)
      PROVE  IInv'
  BY <1>3, RedirectKeeps, ExchangeKeeps, UserInfoKeeps, AuthenticateKeeps, ArriveKeeps,
     CompletedKeeps, CrashKeeps
<1>4. ASSUME NEW s \in Logins, SignIn(s) PROVE IInv'
  BY <1>4, SignInKeeps
<1>5. ASSUME NEW b \in Browsers, Expire(b) PROVE IInv'
  BY <1>5, ExpireKeeps
<1> QED
  BY <1>1, <1>2, <1>3, <1>4, <1>5 DEF Next

\* The inductive invariant holds of every reachable state.
THEOREM Inductive == Spec => []IInv
BY InitIInv, NextIInv, PTL DEF Spec

\* Every variable has its type, whatever the deployment and the traffic.
THEOREM TypeCorrect == Spec => []TypeOK
<1>1. IInv => TypeOK
  BY DEF IInv
<1> QED
  BY <1>1, Inductive, PTL

\* Concurrent callbacks authenticate the identities of their own codes.
THEOREM IdentityOwn == Spec => []OwnIdentity
<1>1. IInv => OwnIdentity
  BY DEF IInv, OwnIdentity, RequestInv
<1> QED
  BY <1>1, Inductive, PTL

\* Callbacks give sessions and pending registration tokens to the browser that
\* started the login only; the rest are completions that the browser posted.
THEOREM SessionsOwned == Spec => []SessionOwned
<1>1. IInv => SessionOwned
  BY DEF IInv
<1> QED
  BY <1>1, Inductive, PTL

\* A refusal for the state has one of the listed reasons.
THEOREM RefusalsExplained == Spec => []RefusalExplained
<1>1. IInv => RefusalExplained
  BY DEF IInv, RefusalExplained, RequestInv, Disturbed
<1> QED
  BY <1>1, Inductive, PTL
=============================================================================
