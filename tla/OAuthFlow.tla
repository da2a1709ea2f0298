----------------------------- MODULE OAuthFlow ------------------------------
(* The redirects of a federated login: /oauth/{provider}/login sends the      *)
(* browser to the provider with a random state and keeps that state in a      *)
(* cookie; the callback compares the two, exchanges the code for a profile    *)
(* and authenticates it.  A browser has one state cookie, for both providers  *)
(* and all of its tabs, and every answer of a callback clears it.             *)
(*                                                                            *)
(* A cookie changes when a response arrives, which other requests of the      *)
(* browser may overtake.  A handler is interrupted only where it awaits the   *)
(* network or the database.  What a login page or a callback answers when its *)
(* provider is not configured changes nothing and is left out.                *)
EXTENDS FiniteSets

CONSTANTS Browsers,
          Logins,       \* values of secrets.token_urlsafe: one names a login
          Identities,   \* accounts at the providers
          Reqs,         \* request slots of the server
          NoBrowser, NoLogin, NoIdentity,
          Deployments   \* environments the server may be started in

Providers == {"google", "apple"}

\* What the environment sets, as far as the flow depends on it.
Settings == [prod : BOOLEAN, prod_frontend_base_url : BOOLEAN, prod_api_base_url : BOOLEAN,
             client_id : SUBSET Providers, credentials : SUBSET Providers,
             redirect_path : SUBSET Providers,
             key_parses : BOOLEAN]   \* ECKey.import_key takes Apple's private key

ASSUME ConstantsAssumption ==
    /\ NoBrowser \notin Browsers
    /\ NoLogin \notin Logins
    /\ NoIdentity \notin Identities
    /\ Deployments \subseteq Settings
    /\ Reqs \cap Providers = {}

VARIABLES settings,   \* the settings the server started with
          login,      \* per state: who started it, where, and the provider's code
          jar,        \* the state cookie of each browser
          session,    \* the identity a browser's refresh token was issued for
          pending,    \* the identities a browser got pending registration tokens of
          token,      \* the token attribute of each provider client object
          req,        \* the requests in progress
          posted,     \* history: the identities a browser posted pending tokens of
          answered,   \* history: browsers that once had a callback answered
          expired     \* history: browsers whose state cookie once expired

vars == <<settings, login, jar, session, pending, token, req, posted, answered, expired>>

registration == <<pending, posted>>

-----------------------------------------------------------------------------
(* Settings.                                                                  *)

\* _check_configurations: the server does not start otherwise.
CheckConfigurations(s) ==
    /\ s.prod => s.prod_frontend_base_url /\ s.prod_api_base_url
    /\ s.client_id \subseteq s.redirect_path
    /\ s.client_id \subseteq s.credentials

Configured(p) == p \in settings.client_id

\* frontend_base_url and api_base_url raise in production when not set.
UrlsKnown == settings.prod =>
                 settings.prod_frontend_base_url /\ settings.prod_api_base_url

\* get_google_oauth_client and get_apple_oauth_client create their client at the
\* first login; Apple's imports its key, which the check at start only asks for.
ClientCreated(p) ==
    /\ Configured(p) /\ p \in settings.credentials /\ UrlsKnown
    /\ p = "apple" => settings.key_parses

-----------------------------------------------------------------------------
LoginRow == [browser : Browsers \cup {NoBrowser}, provider : Providers,
             identity : Identities \cup {NoIdentity},
             code : {"none", "asked", "issued", "spent", "denied"}]

Outcomes == {"none", "session", "pending", "state", "refused"}

Request == [pc : {"idle", "redirect", "exchange", "userinfo", "authenticate", "answer",
                  "complete"},
            browser : Browsers \cup {NoBrowser}, login : Logins \cup {NoLogin},
            identity : Identities \cup {NoIdentity}, outcome : Outcomes]

Idle == [pc |-> "idle", browser |-> NoBrowser, login |-> NoLogin,
         identity |-> NoIdentity, outcome |-> "none"]

\* A mutant: one client for all requests, whose token they overwrite.
ClientOfShared(r, p) == p

\* The client object fetch_token is called on: a new one for each request to
\* Google, the singleton for Apple.
ClientOf(r, p) == IF p = "google" THEN r ELSE "apple"

\* A mutant: any state cookie will do.
StateMatchesAny(cookie, s) == cookie # NoLogin

\* stored_state and the state of the callback.
StateMatches(cookie, s) == cookie = s

Goto(r, q, pc) == req' = [req EXCEPT ![r] = [q EXCEPT !.pc = pc]]

AnswerWith(r, q, outcome) ==
    req' = [req EXCEPT ![r] = [q EXCEPT !.pc = "answer", !.outcome = outcome]]

Init ==
    /\ settings \in {s \in Deployments : CheckConfigurations(s)}
    /\ login = [s \in Logins |-> [browser |-> NoBrowser, provider |-> "google",
                                  identity |-> NoIdentity, code |-> "none"]]
    /\ jar = [b \in Browsers |-> NoLogin]
    /\ session = [b \in Browsers |-> NoIdentity]
    /\ pending = [b \in Browsers |-> {}]
    /\ posted = [b \in Browsers |-> {}]
    /\ token = [c \in Reqs \cup Providers |-> NoIdentity]
    /\ req = [r \in Reqs |-> Idle]
    /\ answered = {}
    /\ expired = {}

-----------------------------------------------------------------------------
(* The login page.                                                            *)

StartLogin(r, b) ==
    /\ req[r].pc = "idle"
    /\ \E p \in Providers, s \in Logins :
          /\ ClientCreated(p)
          /\ login[s].browser = NoBrowser
          /\ login' = [login EXCEPT ![s].browser = b, ![s].provider = p]
          /\ Goto(r, [Idle EXCEPT !.browser = b, !.login = s], "redirect")
    /\ UNCHANGED <<settings, jar, session, token, answered, expired, registration>>

\* A mutant: the redirect does not set the cookie.
RedirectWithoutCookie(r) ==
    LET q == req[r]
    IN  /\ q.pc = "redirect"
        /\ login' = [login EXCEPT ![q.login].code = "asked"]
        /\ req' = [req EXCEPT ![r] = Idle]
        /\ UNCHANGED <<settings, jar, session, token, answered, expired, registration>>

\* A mutant: the cookie gets the provider's name for a value.
RedirectWithProvider(r) ==
    LET q == req[r]
    IN  /\ q.pc = "redirect"
        /\ jar' = [jar EXCEPT ![q.browser] = login[q.login].provider]
        /\ login' = [login EXCEPT ![q.login].code = "asked"]
        /\ req' = [req EXCEPT ![r] = Idle]
        /\ UNCHANGED <<settings, session, token, answered, expired, registration>>

\* The redirect arrives: the browser stores the state and goes to the provider.
Redirect(r) ==
    LET q == req[r]
    IN  /\ q.pc = "redirect"
        /\ jar' = [jar EXCEPT ![q.browser] = q.login]
        /\ login' = [login EXCEPT ![q.login].code = "asked"]
        /\ req' = [req EXCEPT ![r] = Idle]
        /\ UNCHANGED <<settings, session, token, answered, expired, registration>>

\* At the provider the user signs in, with any of their identities, or refuses.
SignIn(s) ==
    /\ login[s].code = "asked"
    /\ \/ \E i \in Identities :
             login' = [login EXCEPT ![s].code = "issued", ![s].identity = i]
       \/ login' = [login EXCEPT ![s].code = "denied"]
    /\ UNCHANGED <<settings, jar, session, token, req, answered, expired, registration>>

-----------------------------------------------------------------------------
(* The callback.                                                              *)

\* Cookies a callback of p carries: a Lax cookie goes with Google's redirect, and
\* may be missing from the cross-site POST that Apple answers with.
Carried(b, p) == IF p = "google" THEN {jar[b]} ELSE {jar[b], NoLogin}

\* A callback, possibly repeated; Google's is a link that another browser may
\* open.  An error of the provider is answered before the state is looked at.
Callback(r, b) ==
    /\ req[r].pc = "idle"
    /\ \E s \in Logins :
          LET p == login[s].provider
              q == [Idle EXCEPT !.browser = b, !.login = s]
          IN  /\ login[s].code \in {"issued", "spent", "denied"}
              /\ p = "google" \/ b = login[s].browser
              /\ \E cookie \in Carried(b, p) :
                    IF login[s].code = "denied" THEN AnswerWith(r, q, "refused")
                    ELSE IF StateMatches(cookie, s) THEN Goto(r, q, "exchange")
                    ELSE AnswerWith(r, q, "state")
    /\ UNCHANGED <<settings, login, jar, session, token, answered, expired, registration>>

\* fetch_token.  A provider accepts a code once; its answer may be lost.  Apple's
\* carries the identity, and parse_id_token follows without an await.
Exchange(r) ==
    LET q == req[r]
        s == q.login
        p == login[s].provider
        i == login[s].identity
    IN  /\ q.pc = "exchange"
        /\ \/ AnswerWith(r, q, "refused") /\ UNCHANGED <<login, token>>
           \/ /\ login[s].code = "issued"
              /\ login' = [login EXCEPT ![s].code = "spent"]
              /\ \/ AnswerWith(r, q, "refused") /\ UNCHANGED token
                 \/ /\ token' = [token EXCEPT ![ClientOf(r, p)] = i]
                    /\ IF p = "google" THEN Goto(r, q, "userinfo")
                       ELSE Goto(r, [q EXCEPT !.identity = i], "authenticate")
        /\ UNCHANGED <<settings, jar, session, answered, expired, registration>>

\* Google's profile is that of the token of the client that asks for it.
UserInfo(r) ==
    LET q == req[r]
    IN  /\ q.pc = "userinfo"
        /\ \/ AnswerWith(r, q, "refused")
           \/ Goto(r, [q EXCEPT !.identity = token[ClientOf(r, "google")]], "authenticate")
        /\ UNCHANGED <<settings, login, jar, session, token, answered, expired, registration>>

\* authenticate_via_oauth and get_access_token, see OAuthRegistration.
Authenticate(r) ==
    /\ req[r].pc = "authenticate"
    /\ \E outcome \in {"session", "pending", "refused"} : AnswerWith(r, req[r], outcome)
    /\ UNCHANGED <<settings, login, jar, session, token, answered, expired, registration>>

\* The answer arrives, whatever it is without the state cookie; a session is the
\* cookie of a refresh token, a pending registration the fragment of an address.
Arrive(r) ==
    LET q == req[r]
    IN  /\ q.pc = "answer"
        /\ jar' = [jar EXCEPT ![q.browser] = NoLogin]
        /\ session' = IF q.outcome = "session"
                      THEN [session EXCEPT ![q.browser] = q.identity] ELSE session
        /\ pending' = IF q.outcome = "pending"
                      THEN [pending EXCEPT ![q.browser] = @ \cup {q.identity}] ELSE pending
        /\ answered' = answered \cup {q.browser}
        /\ req' = [req EXCEPT ![r] = Idle]
        /\ UNCHANGED <<settings, login, token, posted, expired>>

-----------------------------------------------------------------------------
(* The completion.                                                            *)

\* POST /complete-registration, with the pending token of any browser: it is bound
\* to none.  A refusal, see OAuthRegistration, changes nothing here.
Complete(r, b) ==
    /\ req[r].pc = "idle"
    /\ \E i \in UNION {pending[c] : c \in Browsers} :
          /\ Goto(r, [Idle EXCEPT !.browser = b, !.identity = i], "complete")
          /\ posted' = [posted EXCEPT ![b] = @ \cup {i}]
    /\ UNCHANGED <<settings, login, jar, session, pending, token, answered, expired>>

\* The answer arrives with the cookie of a refresh token; the state cookie stays.
Completed(r) ==
    LET q == req[r]
    IN  /\ q.pc = "complete"
        /\ session' = [session EXCEPT ![q.browser] = q.identity]
        /\ req' = [req EXCEPT ![r] = Idle]
        /\ UNCHANGED <<settings, login, jar, token, answered, expired, registration>>

-----------------------------------------------------------------------------
(* Faults and time.                                                           *)

\* A request or its response is lost.
Crash(r) ==
    /\ req[r].pc # "idle"
    /\ req' = [req EXCEPT ![r] = Idle]
    /\ UNCHANGED <<settings, login, jar, session, token, answered, expired, registration>>

\* max_age of the state cookie.
Expire(b) ==
    /\ jar[b] # NoLogin
    /\ jar' = [jar EXCEPT ![b] = NoLogin]
    /\ expired' = expired \cup {b}
    /\ UNCHANGED <<settings, login, session, token, req, answered, registration>>

Next ==
    \/ \E r \in Reqs, b \in Browsers : StartLogin(r, b) \/ Callback(r, b) \/ Complete(r, b)
    \/ \E r \in Reqs : \/ Redirect(r) \/ Exchange(r) \/ UserInfo(r)
                       \/ Authenticate(r) \/ Arrive(r) \/ Completed(r) \/ Crash(r)
    \/ \E s \in Logins : SignIn(s)
    \/ \E b \in Browsers : Expire(b)

Spec == Init /\ [][Next]_vars

-----------------------------------------------------------------------------
(* Properties.                                                                *)

\* Every variable has its type.
TypeOK ==
    /\ settings \in Settings
    /\ login \in [Logins -> LoginRow]
    /\ jar \in [Browsers -> Logins \cup {NoLogin}]
    /\ session \in [Browsers -> Identities \cup {NoIdentity}]
    /\ token \in [Reqs \cup Providers -> Identities \cup {NoIdentity}]
    /\ req \in [Reqs -> Request]
    /\ pending \in [Browsers -> SUBSET Identities]
    /\ posted \in [Browsers -> SUBSET Identities]
    /\ answered \subseteq Browsers
    /\ expired \subseteq Browsers

\* Concurrent callbacks do not mix their tokens: the profile a callback
\* authenticates is that of the identity which its own code was issued for
\* (exchange_google_code_for_token_and_userinfo makes clients of its own).
OwnIdentity ==
    \A r \in Reqs : req[r].pc # "complete" /\ req[r].identity # NoIdentity =>
        req[r].identity = login[req[r].login].identity

\* The identities that signed in, at the provider, in logins of this browser.
SignedIn(b) == {login[s].identity : s \in {t \in Logins : login[t].browser = b}}

\* Wherever callbacks are opened, they give a session, or a pending registration
\* token, only to the browser that started the login: only /complete-registration,
\* which takes the token from any browser that posts it, logs a browser in as an
\* identity that signed in for another browser's login.
SessionOwned ==
    \A b \in Browsers :
        /\ pending[b] \subseteq SignedIn(b)
        /\ session[b] \in {NoIdentity} \cup SignedIn(b) \cup posted[b]

\* A callback in the browser that started its login is refused for the state only
\* if that browser started another login, had the callback of any login answered
\* before, let the cookie expire, or did not send it to Apple's callback.
RefusalExplained ==
    \A r \in Reqs :
        LET s == req[r].login
            b == req[r].browser
        IN  req[r].outcome = "state" /\ b = login[s].browser =>
              \/ \E t \in Logins \ {s} : login[t].browser = b
              \/ b \in answered
              \/ b \in expired
              \/ login[s].provider = "apple"
=============================================================================
