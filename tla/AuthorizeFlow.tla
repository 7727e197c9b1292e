--------------------------- MODULE AuthorizeFlow ----------------------------
(***************************************************************************)
(* The browser's way to an authorization code and to tokens: authorize,    *)
(* login, the consent page and its two forms, the callback, the token      *)
(* request (oauth-service/src/routes/oauth.rs, consent.rs, templates.rs,   *)
(* create_auth_code, utils/validation.rs).                                 *)
(*                                                                         *)
(* The tabs of one browser share one cookie jar and each makes one         *)
(* journey.  A handler takes one step per await, between which the other   *)
(* tabs, the administrators and the clock go on.  The registration of a    *)
(* client never changes (update_client cannot succeed, see Administration),*)
(* only its is_active does.  Rate limits are RateLimiter's subject, the    *)
(* inside of the grant AuthCode's, that of the tokens TokenService's.      *)
(*                                                                         *)
(* The consent endpoints and pages lie behind auth_middleware, which wants  *)
(* a bearer token: the session cookie does not pass it.  A tab may have    *)
(* such a token from earlier; it is of a user or of a client alone.        *)
(*                                                                         *)
(* A scope string is the set of its words; a challenge is one of the       *)
(* classes "none", "short" and "good" that the code tells apart.           *)
(***************************************************************************)
EXTENDS Naturals, FiniteSets

CONSTANTS
  Tabs, HtmlTabs,    \* tabs, and those that use the service's own consent page
  Users,             \* users, all active and with oauth:consent at first
  Clients,           \* registered clients
  Public,            \* those of type PUBLIC
  RequireConsent,    \* those with require_consent
  RedirectUris, AllowedScopes, ResponseTypes, \* client -> its registration
  Queries,           \* tab -> what its client may ask for (bounds the model)
  LoginForms,        \* what users type: [user, right, redirect] (bounds the model);
                     \* redirect is the authorize URL of the login page, or a path
  Bearers,           \* tab -> the bearer tokens it may have
  BearerUser,        \* bearer token -> its user, or None
  Sessions, Codes,   \* session tokens and codes that may be issued (bounds)
  MaxChanges,        \* how much administrators and the clock may change (bound)
  None               \* no session, no user, no query, no code, no state

ASSUME FlowAssumption ==
  /\ HtmlTabs \subseteq Tabs
  /\ Public \subseteq Clients /\ RequireConsent \subseteq Clients
  /\ BearerUser \in [DOMAIN BearerUser -> Users \union {None}]
  /\ \A t \in Tabs : Bearers[t] \subseteq DOMAIN BearerUser
  /\ None \notin DOMAIN BearerUser \union Users \union Sessions \union Codes \union UNION {Queries[t] : t \in Tabs}
  /\ Cardinality(Sessions) >= Cardinality(Tabs) /\ Cardinality(Codes) >= Cardinality(Tabs)
  /\ MaxChanges \in Nat
  /\ LoginForms \subseteq [user : Users, right : BOOLEAN, redirect : {"authorize", "path"}]
  /\ None \notin [user : Users, live : BOOLEAN]  \* nor a session's record

VARIABLES
  session,   \* session token -> [user, live], or None while not issued
  jar,       \* the session_token cookie of the browser, or None
  live,      \* bearer tokens that introspect_token accepts
  active,    \* users with is_active
  consenting,\* users with oauth:consent
  enabled,   \* clients with is_active
  at,        \* tab -> the page it shows, or the await its request has reached
  bearer,    \* tab -> the bearer token of its requests, or None
  query,     \* tab -> the OAuth parameters it carries, or None
  cookie,    \* tab -> the cookie its request was sent with
  user,      \* tab -> whom the handler has identified
  form,      \* tab -> what the form it has sent says, or None
  answer,    \* tab -> how the journey ended
  late,      \* tab -> history: what was already over when its request was sent
  codes,     \* code -> its row, or None
  grants,    \* tokens issued for codes
  allowed    \* history: what users agreed to, as [user, client, uri, scope]

environment == <<session, jar, live, active, consenting, enabled>>
request == <<bearer, query, cookie, user, form>>
results == <<answer, codes, grants, allowed>>
flowVars == <<environment, at, request, late, results>>

-----------------------------------------------------------------------------
(* Validation                                                              *)

\* Mutant of ValidRedirectUri: a URI of any client will do.
ValidRedirectUriOfAnyone(q) == \E c \in Clients : q.uri \in RedirectUris[c]

\* validate_redirect_uri: the exact string is registered for this client; the
\* checks of its syntax behind that hold for the registered ones here.
ValidRedirectUri(q) == q.uri \in RedirectUris[q.client]

\* validate_scope: not empty, and every word is allowed for this client.
ValidScope(q) == q.scope # {} /\ q.scope \subseteq AllowedScopes[q.client]

\* validate_client_id and find_by_client_id, which is_active does not concern.
KnownClient(q) == q.client \in Clients

\* validate_response_type: only known words.
KnownResponseType(q) == q.type \in {"code", "token", "id_token"}

\* validate_code_verifier as create_auth_code applies it to a challenge.
WellFormedChallenge(q) == q.challenge = "good"

\* What authorize_endpoint demands of the request.
ValidRequest(q) ==
  /\ KnownClient(q) /\ ValidRedirectUri(q) /\ KnownResponseType(q) /\ ValidScope(q)
  /\ q.type \in ResponseTypes[q.client]

\* What both consent endpoints demand: the response type is not looked at.
ValidConsentRequest(q) == KnownClient(q) /\ ValidRedirectUri(q) /\ ValidScope(q)

\* What create_auth_code demands, once more from the registry.
ValidCodeRequest(q) ==
  /\ KnownClient(q) /\ ValidRedirectUri(q) /\ ValidScope(q)
  /\ q.client \in Public => WellFormedChallenge(q)

-----------------------------------------------------------------------------
(* Sessions                                                                *)

Live(s) == s # None /\ session[s] # None /\ session[s].live

FlowInit ==
  /\ session = [s \in Sessions |-> None] /\ jar = None
  /\ live = DOMAIN BearerUser
  /\ bearer \in {f \in [Tabs -> DOMAIN BearerUser \union {None}] :
                  \A t \in Tabs : f[t] \in Bearers[t] \union {None}}
  /\ active = Users /\ consenting = Users /\ enabled = Clients
  /\ at = [t \in Tabs |-> "client"]
  /\ query = [t \in Tabs |-> None] /\ cookie = [t \in Tabs |-> None]
  /\ user = [t \in Tabs |-> None] /\ form = [t \in Tabs |-> None]
  /\ answer = [t \in Tabs |-> "none"] /\ late = [t \in Tabs |-> {}]
  /\ codes = [c \in Codes |-> None] /\ grants = {} /\ allowed = {}

Move(t, from, to) == at[t] = from /\ at' = [at EXCEPT ![t] = to]

\* The handler of the tab is done and its locals are gone.
Forget(t) ==
  /\ cookie' = [cookie EXCEPT ![t] = None] /\ user' = [user EXCEPT ![t] = None]
  /\ form' = [form EXCEPT ![t] = None] /\ late' = [late EXCEPT ![t] = {}]

\* A page is shown.
Show(t, from, page) ==
  /\ Move(t, from, page) /\ Forget(t)
  /\ UNCHANGED <<environment, bearer, query, results>>

\* The journey of the tab ends with this answer.
EndJourney(t, from, result) ==
  /\ Move(t, from, "end") /\ Forget(t)
  /\ query' = [query EXCEPT ![t] = None]
  /\ answer' = [answer EXCEPT ![t] = result]
  /\ UNCHANGED <<environment, bearer, codes, grants, allowed>>

\* The handler goes on if ok and ends with a refusal if not.
Check(t, from, ok, to) ==
  \/ ok /\ Move(t, from, to) /\ UNCHANGED <<environment, request, late, results>>
  \/ ~ok /\ EndJourney(t, from, "refused")

\* The last check of a handler that answers with a page.
Render(t, from, ok, page) ==
  \/ ok /\ Show(t, from, page)
  \/ ~ok /\ EndJourney(t, from, "refused")

\* The user of a live session, or None.
Claimed(t, s) == IF Live(s) THEN session[s].user ELSE None

\* Mutant of Subject: the cookie is read when it is needed.
SubjectOfJar(t, s) == Claimed(t, jar)

\* extract_user_id_from_request: the session's user, or else the bearer token's.
\* The service's own pages know the session only.
Subject(t, s) ==
  IF Claimed(t, s) # None \/ t \in HtmlTabs \/ bearer[t] \notin live THEN Claimed(t, s)
  ELSE BearerUser[bearer[t]]

\* The users whose credentials, good now, a request of the tab carries: if the
\* session ends under way, the bearer token's user takes its place.
Carried(t) ==
  {u \in Users :
     \/ Claimed(t, jar) = u
     \/ t \notin HtmlTabs /\ bearer[t] \in live /\ BearerUser[bearer[t]] = u}

\* What a request sent now comes too late for.
Over(t) ==
  {w \in {"session", "user", "permission", "client"} :
     \/ w = "session" /\ Carried(t) = {}
     \/ w = "user" /\ Carried(t) \intersect active = {}
     \/ w = "permission" /\ Carried(t) \intersect consenting = {}
     \/ w = "client" /\ query[t] # None /\ query[t].client \in Clients \ enabled}

\* The browser sends a request with the cookie it has now.
Send(t, from, to) ==
  /\ Move(t, from, to)
  /\ cookie' = [cookie EXCEPT ![t] = jar]
  /\ late' = [late EXCEPT ![t] = Over(t)]

-----------------------------------------------------------------------------
(* GET /api/v2/oauth/authorize                                             *)

\* AuthorizeRequest: the parameters this endpoint reads; state is not one.
AuthorizeRequest(q) == [q EXCEPT !.state = None]

StartJourney(t, q) ==
  /\ Send(t, "client", "authorize")
  /\ query' = [query EXCEPT ![t] = AuthorizeRequest(q)]
  /\ UNCHANGED <<environment, bearer, user, form, results>>

\* Mutant of NextPage: a signed-in user is not asked again.
NextPageUnasked(t) == "issue_authorize"

\* Where a signed-in user goes: the consent page, if the client wants one.
NextPage(t) == IF query[t].client \in RequireConsent THEN "consent" ELSE "issue_authorize"

(* authorize_endpoint: the request is checked against the registration,    *)
(* then the session is looked up.  It looks at neither the user's nor the  *)
(* client's is_active.                                                     *)
Authorize(t) ==
  /\ at[t] = "authorize"
  /\ \/ ~ValidRequest(query[t]) /\ EndJourney(t, "authorize", "refused")
     \/ /\ ValidRequest(query[t])
        /\ Subject(t, cookie[t]) = None
        /\ Show(t, "authorize", "login")
     \/ /\ ValidRequest(query[t])
        /\ Subject(t, cookie[t]) # None
        /\ \/ NextPage(t) = "consent" /\ Show(t, "authorize", "consent")
           \/ /\ NextPage(t) # "consent"
              /\ Move(t, "authorize", NextPage(t))
              /\ user' = [user EXCEPT ![t] = Subject(t, cookie[t])]
              /\ UNCHANGED <<environment, bearer, query, cookie, form, late, results>>

-----------------------------------------------------------------------------
(* POST /api/v2/auth/login                                                 *)

(* The form is sent; one that is malformed or that redirects elsewhere is  *)
(* refused and leaves the page as it is.                                   *)
SubmitLogin(t, f) ==
  /\ Send(t, "login", "authenticate")
  /\ form' = [form EXCEPT ![t] = f]
  /\ UNCHANGED <<environment, bearer, query, user, results>>

(* login_endpoint up to authenticate; lockout is UserAccount's subject.    *)
AuthenticateLogin(t) ==
  /\ at[t] = "authenticate"
  /\ IF form[t].right /\ form[t].user \in active
       THEN /\ Move(t, "authenticate", "open_session")
            /\ UNCHANGED <<environment, request, late, results>>
       ELSE Show(t, "authenticate", "login")

(* login_endpoint from issue_tokens on: the cookie is replaced, and the    *)
(* next page is the consent page whatever the client registered, with the  *)
(* parameters if redirect was an absolute URL.                             *)
OpenSession(t, s) ==
  /\ Move(t, "open_session", "consent") /\ Forget(t)
  /\ session[s] = None
  /\ session' = [session EXCEPT ![s] = [user |-> form[t].user, live |-> TRUE]]
  /\ jar' = s
  /\ query' = [query EXCEPT ![t] = IF form[t].redirect = "authorize" THEN @ ELSE None]
  /\ UNCHANGED <<live, active, consenting, enabled, bearer, results>>

-----------------------------------------------------------------------------
(* The consent page and its forms.  The steps below are those of three     *)
(* handlers, which differ in where they begin and continue.                *)

\* auth_middleware in front of the handler: no bearer token, no handler.
Layer(t, from, to) ==
  \/ /\ bearer[t] \in live
     /\ Move(t, from, to) /\ UNCHANGED <<environment, request, late, results>>
  \/ bearer[t] \notin live /\ EndJourney(t, from, "unauthorized")

\* The handler's own look at who asks.
Identify(t, from, to) ==
  \/ /\ Move(t, from, to) /\ Subject(t, cookie[t]) # None
     /\ user' = [user EXCEPT ![t] = Subject(t, cookie[t])]
     /\ UNCHANGED <<environment, bearer, query, cookie, form, late, results>>
  \/ EndJourney(t, from, "refused") /\ Subject(t, cookie[t]) = None

(* The page is loaded: the portal's, or the service's own for HtmlTabs.    *)
(* Without parameters neither gets any further.                            *)
LoadConsentPage(t) ==
  \/ /\ query[t] # None
     /\ Send(t, "consent", IF t \in HtmlTabs THEN "page" ELSE "info")
     /\ UNCHANGED <<environment, bearer, query, user, form, results>>
  \/ query[t] = None /\ EndJourney(t, "consent", "lost")

(* get_consent_info.                                                       *)
ConsentInfo(t) ==
  \/ Layer(t, "info", "info_session")
  \/ Identify(t, "info_session", "info_user")
  \/ Check(t, "info_user", user[t] \in active, "info_client")
  \/ /\ at[t] = "info_client"
     /\ Render(t, "info_client", user[t] \in consenting /\ ValidConsentRequest(query[t]), "asked")

(* consent_handler of the service's own page: neither oauth:consent nor    *)
(* the redirect URI and the scope are looked at.                           *)
ConsentPage(t) ==
  \/ Layer(t, "page", "page_session")
  \/ Identify(t, "page_session", "page_user")
  \/ /\ at[t] = "page_user"
     /\ Render(t, "page_user", user[t] \in active /\ KnownClient(query[t]), "asked")

\* The words on the buttons of the two pages, and one that is on neither.
Words(t) == IF t \in HtmlTabs THEN {"approve", "deny", "other"} ELSE {"allow", "deny"}
Agreement == {"allow", "approve"}

Consent(u, q) == [user |-> u, client |-> q.client, uri |-> q.uri, scope |-> q.scope]

SubmitConsent(t, w) ==
  /\ Send(t, "asked", IF t \in HtmlTabs THEN "form" ELSE "submit")
  /\ w \in Words(t)
  /\ form' = [form EXCEPT ![t] = [decision |-> w]]
  /\ allowed' = IF w \in Agreement THEN allowed \union {Consent(u, query[t]) : u \in Carried(t)} ELSE allowed
  /\ UNCHANGED <<environment, bearer, query, user, answer, codes, grants>>

(* consent_submit_handler, then submit_consent with the same cookie.       *)
ConsentForm(t) ==
  \/ Layer(t, "form", "form_session")
  \/ Identify(t, "form_session", "form_word")
  \/ /\ at[t] = "form_word"
     /\ Check(t, "form_word", form[t].decision \in {"approve", "deny"}, "submit_session")

\* Mutant of AllowWord: the word of the other page.
AllowWordApprove == "approve"

\* What submit_consent takes for a yes.
AllowWord == "allow"

(* submit_consent: the user, the permission, the client, and the match on  *)
(* the decision.                                                           *)
Submit(t) ==
  \/ Layer(t, "submit", "submit_session")
  \/ Identify(t, "submit_session", "submit_user")
  \/ Check(t, "submit_user", user[t] \in active, "submit_client")
  \/ /\ at[t] = "submit_client"
     /\ LET may == user[t] \in consenting /\ ValidConsentRequest(query[t]) IN
        IF may /\ form[t].decision = "deny"
          THEN EndJourney(t, "submit_client", "access_denied")
          ELSE Check(t, "submit_client", may /\ form[t].decision = AllowWord, "issue_consent")

-----------------------------------------------------------------------------
(* create_auth_code and the token request                                  *)

\* What a failure of create_auth_code looks like in either handler.
IssueError(at_t) == IF at_t = "issue_consent" THEN "server_error" ELSE "refused"

CreateCode(t, c) ==
  /\ at[t] \in {"issue_authorize", "issue_consent"}
  /\ \/ /\ ValidCodeRequest(query[t])
        /\ codes[c] = None
        /\ codes' = [codes EXCEPT ![c] =
             [tab |-> t, via |-> at[t], consent |-> Consent(user[t], query[t]),
              challenge |-> query[t].challenge,
              late |-> late[t], used |-> FALSE]]
        /\ Move(t, at[t], "callback") /\ Forget(t)
        /\ UNCHANGED <<environment, bearer, query, answer, grants, allowed>>
     \/ ~ValidCodeRequest(query[t]) /\ EndJourney(t, at[t], IssueError(at[t]))

(* The client's callback asks for tokens.                                  *)
RequestToken(t) ==
  /\ Send(t, "callback", "token")
  /\ UNCHANGED <<environment, bearer, query, user, form, results>>

\* authenticate_client: registered, active and with the right secret.
Authenticated(c) == c \in enabled

(* token_endpoint up to the grant.                                         *)
AuthenticateClient(t) ==
  at[t] = "token" /\ Check(t, "token", Authenticated(query[t].client), "grant")

(* handle_authorization_code_grant, AuthCode's subject, in one step.       *)
GrantToken(t, c) ==
  /\ codes[c] # None /\ codes[c].tab = t /\ Move(t, "grant", "end") /\ Forget(t)
  /\ codes' = [codes EXCEPT ![c].used = TRUE]
  /\ IF codes[c].challenge = "good"
       THEN /\ answer' = [answer EXCEPT ![t] = "tokens"]
            /\ grants' = grants \union {[consent |-> codes[c].consent, late |-> late[t]]}
       ELSE answer' = [answer EXCEPT ![t] = "burnt"] /\ UNCHANGED grants
  /\ UNCHANGED <<environment, bearer, query, allowed>>

-----------------------------------------------------------------------------
(* The administrators and the clock                                        *)

Others == <<at, request, late, results, jar>>

Changes ==
  Cardinality(Users \ active) + Cardinality(Users \ consenting) +
  Cardinality(Clients \ enabled) + Cardinality(DOMAIN BearerUser \ live) +
  Cardinality({s \in Sessions : session[s] # None /\ ~session[s].live})

MayChange == Changes < MaxChanges

\* A session token expires.
EndSession(s) ==
  /\ MayChange /\ Live(s)
  /\ session' = [session EXCEPT ![s].live = FALSE]
  /\ UNCHANGED <<live, active, consenting, enabled, Others>>

EndBearer(b) ==
  /\ MayChange /\ b \in live
  /\ live' = live \ {b}
  /\ UNCHANGED <<session, active, consenting, enabled, Others>>

Deactivate(u) ==
  /\ MayChange /\ u \in active
  /\ active' = active \ {u}
  /\ UNCHANGED <<session, live, consenting, enabled, Others>>

TakePermission(u) ==
  /\ MayChange /\ u \in consenting
  /\ consenting' = consenting \ {u}
  /\ UNCHANGED <<session, live, active, enabled, Others>>

Disable(c) ==
  /\ MayChange /\ c \in enabled
  /\ enabled' = enabled \ {c}
  /\ UNCHANGED <<session, live, active, consenting, Others>>

Server(t) ==
  \/ Authorize(t) \/ AuthenticateLogin(t)
  \/ \E s \in Sessions : OpenSession(t, s)
  \/ ConsentInfo(t) \/ ConsentPage(t) \/ ConsentForm(t) \/ Submit(t)
  \/ AuthenticateClient(t)
  \/ \E c \in Codes : CreateCode(t, c) \/ GrantToken(t, c)

\* What the browser does by itself.
Browser(t) == LoadConsentPage(t) \/ RequestToken(t)

FlowNext ==
  \/ \E t \in Tabs :
       \/ \E q \in Queries[t] : StartJourney(t, q)
       \/ \E f \in LoginForms : SubmitLogin(t, f)
       \/ \E w \in {"allow", "approve", "deny", "other"} : SubmitConsent(t, w)
       \/ Server(t) \/ Browser(t)
  \/ \E s \in Sessions : EndSession(s)
  \/ \E b \in DOMAIN BearerUser : EndBearer(b)
  \/ \E u \in Users : Deactivate(u) \/ TakePermission(u)
  \/ \E c \in Clients : Disable(c)

\* Handlers and pages run, users decide, and finally remember their password.
Fairness ==
  \A t \in Tabs :
    /\ WF_flowVars(Server(t)) /\ WF_flowVars(Browser(t))
    /\ WF_flowVars(\E w \in Words(t) : SubmitConsent(t, w))
    /\ SF_flowVars(\E f \in LoginForms : f.right /\ SubmitLogin(t, f))

FlowSpec == FlowInit /\ [][FlowNext]_flowVars /\ Fairness

-----------------------------------------------------------------------------
(* Properties                                                              *)

Places ==
  {"client", "authorize", "login", "authenticate", "open_session", "consent",
   "info", "info_session", "info_user", "info_client", "page", "page_session", "page_user",
   "asked", "form", "form_session", "form_word", "submit", "submit_session", "submit_user",
   "submit_client", "issue_authorize", "issue_consent", "callback", "token",
   "grant", "end"}

Consents ==
  [user : Users, client : Clients, uri : UNION {RedirectUris[c] : c \in Clients},
   scope : SUBSET UNION {AllowedScopes[c] : c \in Clients}]

\* The variables keep their types, a code's user is the one of the session it
\* was asked with, and only finished journeys have an answer.
FlowTypeOK ==
  /\ \A s \in Sessions :
       session[s] # None => session[s].user \in Users /\ session[s].live \in BOOLEAN
  /\ jar \in Sessions \union {None} /\ (jar # None => session[jar] # None)
  /\ active \subseteq Users /\ consenting \subseteq Users /\ enabled \subseteq Clients
  /\ at \in [Tabs -> Places]
  /\ \A t \in Tabs : answer[t] # "none" <=> at[t] = "end"
  /\ \A c \in Codes : codes[c] # None =>
       codes[c].consent \in Consents
  /\ \A g \in grants : g.consent \in Consents

Issued == {codes[c] : c \in {d \in Codes : codes[d] # None}}

\* No code without its reason: either the client wants no consent, or on the
\* page its user agreed to this client, redirect URI and scope, whatever happened
\* in the browser's other tabs in between.  The user is the one of the session or
\* of the bearer token that the form was sent with.
CodesAreAuthorised ==
  \A k \in Issued :
    \/ k.via = "issue_authorize" /\ k.consent.client \notin RequireConsent
    \/ k.via = "issue_consent" /\ k.consent \in allowed

\* A code leads only to a redirect URI and a scope its client has registered,
\* and a public client's code has a challenge.
CodesMatchRegistration ==
  \A k \in Issued :
    /\ k.consent.uri \in RedirectUris[k.consent.client]
    /\ k.consent.scope \subseteq AllowedScopes[k.consent.client]
    /\ k.consent.client \in Public => k.challenge = "good"

\* A request sent after the session and the token were over yields no code; one
\* sent after the user was deactivated or had lost oauth:consent yields none by
\* consent; and a client disabled before its token request gets no tokens.  (A
\* deactivated user whose session lives still gets codes from authorize.)
LateRequestsAreRefused ==
  /\ \A k \in Issued :
       /\ "session" \notin k.late
       /\ k.via = "issue_consent" => k.late \intersect {"user", "permission"} = {}
  /\ \A g \in grants : "client" \notin g.late

Quiet ==
  /\ active = Users /\ consenting = Users /\ enabled = Clients /\ live = DOMAIN BearerUser
  /\ \A s \in Sessions : session[s] # None => session[s].live

Proper(t) ==
  /\ at[t] = "authorize" /\ t \notin HtmlTabs /\ bearer[t] # None
  /\ ValidRequest(query[t]) /\ query[t].challenge = "good"

\* While the administrators and the clock leave it alone, the proper journey of
\* a tab that already has a bearer token ends with tokens or with the user's
\* refusal, whichever tab signs in as whom in between, unless the login page
\* lost the parameters.
JourneysSucceed ==
  []Quiet => \A t \in Tabs :
    Proper(t) ~> (answer[t] \in {"tokens", "access_denied", "lost"})
=============================================================================
