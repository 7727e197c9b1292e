--------------------------- MODULE AccessControl ----------------------------
(***************************************************************************)
(* The middleware stack in front of every handler of the oauth service, and*)
(* the handlers that sign or verify tokens (oauth-service/src/app.rs,      *)
(* middleware/auth.rs, middleware/permission.rs, routes/oauth.rs).         *)
(*                                                                         *)
(* axum runs the layer that was added last first: rate limit, auth,        *)
(* permission, CORS, trace, audit, security headers, router.  A layer that *)
(* answers itself keeps the request from every layer behind it.            *)
(*                                                                         *)
(* A path is the sequence of its segments, with "api" for the two segments *)
(* of /api/v2; a permission <<"users", "read">> is "users:read" in the     *)
(* code.  A request's token is its bearer token, or the one in its body    *)
(* where the handler takes it from there.                                  *)
(***************************************************************************)
EXTENDS SigningKeys, Sequences

CONSTANTS
  Requests,   \* concurrent requests
  Tokens,     \* the JWTs that are followed (bounds the model)
  NoToken,    \* no Authorization header, or a text that is no JWT
  UserClaims,   \* what the tokens of users may say
  ClientClaims, \* what those of client credentials may say
  NoUser,       \* a token without sub
  Environments, \* the environments the process is started in
  MaxKey,       \* bounds how often the key files are replaced
  Id,         \* the value of every path parameter
  Methods     \* the HTTP methods used in this instance

ASSUME AccessAssumption == NoToken \notin Tokens /\ MaxKey \in Nat \ {0}
ASSUME ClaimsAssumption == \A c \in ClientClaims : c.user = NoUser

Param == ":"  \* a pattern segment that starts with a colon

Row(m, path, resource, action) ==
  [method |-> m, path |-> path, required |-> {<<resource, action>>}]

CollectionAction == [GET |-> "read", POST |-> "create"]
ItemAction == [GET |-> "read", PUT |-> "update", DELETE |-> "delete"]
Resources == {"clients", "users", "permissions", "roles"}

(* get_route_permissions                                                   *)
RoutePermissions ==
  {Row(m, <<"api", "admin", f>>, f, CollectionAction[m]) :
     m \in DOMAIN CollectionAction, f \in Resources}
  \union
  {Row(m, <<"api", "admin", f, Param>>, f, ItemAction[m]) :
     m \in DOMAIN ItemAction, f \in Resources}
  \union
  {Row(m, <<"api", "admin", "roles", Param, "permissions">>, "roles",
       IF m = "GET" THEN "read" ELSE "manage") : m \in {"GET", "POST", "DELETE"}}
  \union
  {Row(m, <<"api", "admin", "users", Param, "roles">>, "users",
       IF m = "GET" THEN "read" ELSE "manage_roles") : m \in {"GET", "POST", "DELETE"}}

\* The public_paths of auth_middleware and of permission_middleware.
AuthPublic ==
  {<<"health">>, <<"api", "oauth", "token">>, <<"api", "oauth", "authorize">>,
   <<"api", "oauth", "introspect">>, <<"api", "oauth", "revoke">>,
   <<"api", "auth", "authenticate">>, <<"api", "auth", "login">>}

\* The same seven paths are listed a second time in permission_middleware.
PermissionPublic == AuthPublic

Route(methods, path) == [methods |-> methods, path |-> path]

(* The routes of create_app but for the files under /static; get() also    *)
(* serves HEAD.                                                            *)
Routes ==
  {Route({m} \union (IF m = "GET" THEN {"HEAD"} ELSE {}), r) :
     m \in {"GET"},
     r \in {<<"health">>, <<"api", "oauth", "authorize">>, <<"api", "oauth", "userinfo">>,
            <<"api", "oauth", "consent", "info">>, <<"api", "users", "me">>,
            <<"api", "admin", "audit-logs">>, <<"api", "admin", "audit-logs", "export">>,
            <<"login">>, <<"oauth", "consent">>, <<"error">>, <<"success">>}}
  \union
  {Route({"POST"}, r) :
     r \in {<<"api", "oauth", "token">>, <<"api", "oauth", "introspect">>,
            <<"api", "oauth", "revoke">>, <<"api", "auth", "login">>,
            <<"api", "auth", "authenticate">>, <<"api", "oauth", "consent", "submit">>,
            <<"oauth", "consent", "submit">>}}
  \union
  {Route({"HEAD"} \union DOMAIN CollectionAction, <<"api", "admin", f>>) : f \in Resources}
  \union
  {Route({"HEAD"} \union DOMAIN ItemAction, <<"api", "admin", f, Param>>) : f \in Resources}
  \union
  {Route({"GET", "HEAD", "POST", "DELETE"}, r) :
     r \in {<<"api", "admin", "roles", Param, "permissions">>,
            <<"api", "admin", "users", Param, "roles">>}}

\* Mutant of PathMatches: the lengths are not compared.
PathMatchesPrefix(path, pattern) ==
  \A i \in DOMAIN path \intersect DOMAIN pattern : pattern[i] \in {Param, path[i]}

(* path_matches: segment by segment, a parameter matches anything.         *)
PathMatches(path, pattern) ==
  /\ Len(path) = Len(pattern)
  /\ \A i \in DOMAIN path : pattern[i] \in {Param, path[i]}

\* The rows that apply to a request, and whether the router knows it.
Rows(q) == {row \in RoutePermissions : row.method = q.method /\ PathMatches(q.path, row.path)}
Routed(q) == \E rt \in Routes : q.method \in rt.methods /\ PathMatches(q.path, rt.path)

\* The paths clients ask for: those of the routes.
Paths == {[i \in DOMAIN rt.path |-> IF rt.path[i] = Param THEN Id ELSE rt.path[i]] : rt \in Routes}

Calls == [method : Methods, path : Paths, token : Tokens \union {NoToken}]

VARIABLES
  config,    \* the settings of the running process
  keyFile,   \* the key files on disk
  signed,    \* token -> the JWT, or NoJwt before it is issued
  ended,     \* the tokens that are revoked, rotated or have expired
  pc,        \* request -> the layer it is about to enter
  call,      \* request -> what it asks for
  context,   \* request -> the token whose AuthContext was attached, or NoToken
  status,    \* request -> the answer
  audited,   \* the requests the audit layer has logged
  hardened,  \* the requests whose answer gets the security headers
  late       \* history: requests whose token was not accepted on arrival

hostVars == <<config, keyFile>>
jwtVars == <<signed, ended>>
vars == <<hostVars, jwtVars, pc, call, context, status, audited, hardened, late>>

NoJwt == Jwt("none", NoKey, TokenClaims("none", NoUser, {}))

\* What call holds before a request arrives; nothing depends on it.
NoCall == [method |-> "GET", path |-> <<"health">>, token |-> NoToken]

Init ==
  /\ \E env \in Environments : config = FromEnv(env)
  /\ \E form \in Forms : keyFile = KeyFile(1, form)
  /\ signed = [t \in Tokens |-> NoJwt] /\ ended = {}
  /\ pc = [r \in Requests |-> "idle"]
  /\ call = [r \in Requests |-> NoCall]
  /\ context = [r \in Requests |-> NoToken]
  /\ status = [r \in Requests |-> "none"]
  /\ audited = {} /\ hardened = {} /\ late = {}

(* Bearer tokens: introspect_token, with the key as it is on disk now.     *)
Introspect(t) ==
  /\ t \in Tokens \ ended
  /\ VerifyToken(signed[t], LoadDecodingKey(config, keyFile))

Pass(r, from, to) ==
  /\ pc[r] = from
  /\ pc' = [pc EXCEPT ![r] = to]
  /\ UNCHANGED <<hostVars, jwtVars, call, status, audited, hardened, late>>

Respond(r, from, answer) ==
  /\ pc[r] = from
  /\ pc' = [pc EXCEPT ![r] = "done"]
  /\ status' = [status EXCEPT ![r] = answer]
  /\ UNCHANGED <<hostVars, call, context, late>>

\* An answer of a layer in front of the router.
Refuse(r, from, answer) ==
  Respond(r, from, answer) /\ UNCHANGED <<jwtVars, audited, hardened>>

(* A request arrives at the running process.                               *)
Arrive(r, q) ==
  /\ pc[r] = "idle" /\ config # NoConfig
  /\ q.token \in Tokens => signed[q.token] # NoJwt
  /\ pc' = [pc EXCEPT ![r] = "rate_limit"]
  /\ call' = [call EXCEPT ![r] = q]
  /\ late' = IF Introspect(q.token) THEN late ELSE late \union {r}
  /\ UNCHANGED <<hostVars, jwtVars, context, status, audited, hardened>>

\* The requests in R are forgotten.
Forget(R) ==
  /\ pc' = [r \in Requests |-> IF r \in R THEN "idle" ELSE pc[r]]
  /\ call' = [r \in Requests |-> IF r \in R THEN NoCall ELSE call[r]]
  /\ context' = [r \in Requests |-> IF r \in R THEN NoToken ELSE context[r]]
  /\ status' = [r \in Requests |-> IF r \in R THEN "none" ELSE status[r]]
  /\ audited' = audited \ R /\ hardened' = hardened \ R /\ late' = late \ R

(* The answer is sent and the connection is ready for the next request.    *)
Close(r) == pc[r] = "done" /\ Forget({r}) /\ UNCHANGED <<hostVars, jwtVars>>

(* rate_limit_middleware; which requests it refuses is RateLimiter's       *)
(* subject.                                                                *)
RateLimit(r) ==
  \/ Pass(r, "rate_limit", "auth") /\ UNCHANGED context
  \/ Refuse(r, "rate_limit", "429")

\* Mutant of Accepted: the signature is checked, the tables are not asked.
AcceptedSigned(t) ==
  t \in Tokens /\ VerifyToken(signed[t], LoadDecodingKey(config, keyFile))

\* The bearer token is there and introspect_token accepts it now.
Accepted(t) == Introspect(t)

(* auth_middleware; "401" stands for every way it refuses.                 *)
Authenticate(r) ==
  LET q == call[r] IN
  \/ q.path \in AuthPublic /\ Pass(r, "auth", "permission") /\ UNCHANGED context
  \/ /\ q.path \notin AuthPublic /\ Accepted(q.token)
     /\ Pass(r, "auth", "permission")
     /\ context' = [context EXCEPT ![r] = q.token]
  \/ /\ q.path \notin AuthPublic /\ ~Accepted(q.token)
     /\ Refuse(r, "auth", "401")

Permissions(t) == signed[t].claims.permissions
Holds(r, row) == row.required \subseteq Permissions(context[r])

(* permission_middleware: the first row met in a HashMap, in any order,    *)
(* decides; a request no row applies to passes.  The 401 for a request     *)
(* without an AuthContext is left out: LateTokensStayOut shows that none   *)
(* gets here, although the two lists of public paths are written twice.    *)
CheckPermission(r) ==
  LET q == call[r] IN
  \/ q.path \in PermissionPublic /\ Pass(r, "permission", "cors") /\ UNCHANGED context
  \/ /\ q.path \notin PermissionPublic /\ context[r] # NoToken
     /\ \/ Rows(q) = {} /\ Pass(r, "permission", "cors")
        \/ \E row \in Rows(q) : Holds(r, row) /\ Pass(r, "permission", "cors")
     /\ UNCHANGED context
  \/ /\ q.path \notin PermissionPublic /\ context[r] # NoToken
     /\ \E row \in Rows(q) : ~Holds(r, row)
     /\ Refuse(r, "permission", "403")

(* CorsLayer answers a preflight itself.                                   *)
Cors(r) ==
  \/ call[r].method = "OPTIONS" /\ Refuse(r, "cors", "preflight")
  \/ call[r].method # "OPTIONS" /\ Pass(r, "cors", "router") /\ UNCHANGED context

\* audit_middleware logs the request and its answer.
Audit(r) == audited' = audited \union {r}

\* security_headers_middleware sets the headers of the answer.
Harden(r) == hardened' = hardened \union {r}

(* The answer of a handler passes the two innermost layers.                *)
Answer(r, answer) == Respond(r, "router", answer) /\ Audit(r) /\ Harden(r)

(* The router knows no handler for the request.                            *)
Unrouted(r) == ~Routed(call[r]) /\ Answer(r, "unrouted") /\ UNCHANGED jwtVars

Reaches(r, endpoint) == pc[r] = "router" /\ Routed(call[r]) /\ call[r].path = endpoint

TokenPath == <<"api", "oauth", "token">>
AuthenticatePath == <<"api", "auth", "authenticate">>
UserInfoPath == <<"api", "oauth", "userinfo">>
IntrospectPath == <<"api", "oauth", "introspect">>
RevokePath == <<"api", "oauth", "revoke">>

(* issue_tokens: of the JWTs in its answer at most one is followed, the    *)
(* others are never presented.                                             *)
Issue(r, claims) ==
  /\ LoadEncodingKey(config, keyFile) # NoKey
  /\ \/ UNCHANGED signed
     \/ \E t \in Tokens :
          /\ signed[t] = NoJwt
          /\ signed' = [signed EXCEPT ![t] = GenerateToken(config, keyFile, claims)]
  /\ Answer(r, "handled")

\* The handler refuses: what it was sent is somebody else's subject.
Fail(r) == Answer(r, "failed") /\ UNCHANGED jwtVars

(* handle_authorization_code_grant and handle_client_credentials_grant.    *)
(* Which codes and clients they take are AuthCode's and Administration's   *)
(* subjects.                                                               *)
Grant(r) ==
  /\ \E claims \in ClientClaims \union UserClaims : Issue(r, claims)
  /\ UNCHANGED ended

\* The tokens that another token of t's user may be issued with.
ClaimsOfUser(t) == {claims \in UserClaims : claims.user = signed[t].claims.user}

(* handle_refresh_token_grant: a refresh token that verifies and is not    *)
(* revoked is revoked in the transaction that issues its successors.       *)
(* Rotations of one token that overlap are TokenService's subject.         *)
Refresh(r) ==
  /\ Introspect(call[r].token) /\ signed[call[r].token].claims.kind = "refresh"
  /\ \E claims \in ClaimsOfUser(call[r].token) : Issue(r, claims)
  /\ ended' = ended \union {call[r].token}

(* token_endpoint                                                          *)
TokenEndpoint(r) ==
  /\ Reaches(r, TokenPath)
  /\ Fail(r) \/ Grant(r) \/ Refresh(r)

(* authenticate_endpoint: a user's name and password, with the permissions *)
(* the user has; no client is asked for its secret.                        *)
AuthenticateEndpoint(r) ==
  /\ Reaches(r, AuthenticatePath)
  /\ Fail(r) \/ \E claims \in UserClaims : Issue(r, claims) /\ UNCHANGED ended

(* userinfo_endpoint                                                       *)
UserInfo(r) ==
  /\ Reaches(r, UserInfoPath)
  /\ Answer(r, IF signed[context[r]].claims.user = NoUser THEN "failed" ELSE "handled")
  /\ UNCHANGED jwtVars

(* introspect_endpoint: asked without a bearer token or client secret.     *)
IntrospectEndpoint(r) ==
  /\ Reaches(r, IntrospectPath)
  /\ Answer(r, IF Introspect(call[r].token) THEN "active" ELSE "inactive")
  /\ UNCHANGED jwtVars

(* validate_auth_code: a JWT has two dots in it and more than 256 letters. *)
ValidAuthCode(t) == t \notin Tokens

(* revoke_endpoint: the client's secret, then the format of the token.     *)
RevokeEndpoint(r) ==
  /\ Reaches(r, RevokePath)
  /\ \/ Fail(r)
     \/ /\ ValidAuthCode(call[r].token)
        /\ Answer(r, "handled")
        /\ ended' = IF Introspect(call[r].token) THEN ended \union {call[r].token} ELSE ended
        /\ UNCHANGED signed

(* Every other handler.                                                    *)
Handle(r) ==
  /\ Routed(call[r])
  /\ call[r].path \notin {TokenPath, AuthenticatePath, UserInfoPath, IntrospectPath, RevokePath}
  /\ Answer(r, "handled") /\ UNCHANGED jwtVars

Dispatch(r) ==
  \/ Unrouted(r) \/ Handle(r)
  \/ TokenEndpoint(r) \/ AuthenticateEndpoint(r) \/ UserInfo(r)
  \/ IntrospectEndpoint(r) \/ RevokeEndpoint(r)

(* A token expires.                                                        *)
End(t) ==
  /\ signed[t] # NoJwt /\ t \notin ended
  /\ ended' = ended \union {t}
  /\ UNCHANGED <<hostVars, signed, pc, call, context, status, audited, hardened, late>>

(* The key files are replaced while the process runs.                      *)
ReplaceKeys(form) ==
  /\ keyFile.key < MaxKey
  /\ keyFile' = KeyFile(keyFile.key + 1, form)
  /\ UNCHANGED <<config, jwtVars, pc, call, context, status, audited, hardened, late>>

(* The process stops, with the requests in it, and is started again.       *)
Restart(env) ==
  /\ config' = FromEnv(env)
  /\ Forget(Requests)
  /\ UNCHANGED <<keyFile, jwtVars>>

Next ==
  \/ \E r \in Requests, q \in Calls : Arrive(r, q)
  \/ \E r \in Requests :
       RateLimit(r) \/ Authenticate(r) \/ CheckPermission(r) \/ Cors(r) \/ Dispatch(r) \/ Close(r)
  \/ \E t \in Tokens : End(t)
  \/ \E form \in Forms : ReplaceKeys(form)
  \/ \E env \in Environments : Restart(env)

Spec == Init /\ [][Next]_vars

-----------------------------------------------------------------------------
(* Properties                                                              *)

\* The tokens that some start could have signed, and none.
Jwts ==
  {NoJwt} \union
  {GenerateToken(FromEnv(env), file, claims) :
     env \in Environments, file \in [key : 1 .. MaxKey, form : Forms], claims \in UserClaims \union ClientClaims}

\* The variables keep their types, and exactly the finished requests are
\* answered.
TypeOK ==
  /\ config \in {FromEnv(env) : env \in Environments}
  /\ keyFile \in [key : 1 .. MaxKey, form : Forms]
  /\ signed \in [Tokens -> Jwts]
  /\ ended \subseteq {t \in Tokens : signed[t] # NoJwt}
  /\ pc \in [Requests -> {"idle", "rate_limit", "auth", "permission", "cors", "router", "done"}]
  /\ call \in [Requests -> Calls \union {NoCall}]
  /\ context \in [Requests -> Tokens \union {NoToken}]
  /\ status \in [Requests -> {"none", "429", "401", "403", "preflight", "unrouted",
                               "handled", "failed", "active", "inactive"}]
  /\ audited \subseteq Requests /\ hardened \subseteq Requests /\ late \subseteq Requests
  /\ \A r \in Requests : pc[r] = "done" <=> status[r] # "none"

Handled(r) == status[r] \in {"handled", "failed", "active", "inactive"}
Permission(r, row) ==
  call[r].token \in Tokens /\ row.required \subseteq Permissions(call[r].token)

\* Permissions decide on what the table lists, whatever row its unordered map
\* yields first: of the requests some row applies to, a handler only runs for
\* one whose own token carries the permissions of every such row; and 403 is
\* only answered to such a request, when no order of the rows would have let it
\* in.  It says nothing of requests no row applies to, which pass with any token.
PermissionsDecide ==
  \A r \in Requests :
    /\ Rows(call[r]) # {} /\ Handled(r) => \A row \in Rows(call[r]) : Permission(r, row)
    /\ status[r] = "403" =>
         Rows(call[r]) # {} /\ \A row \in Rows(call[r]) : ~Permission(r, row)

\* A token that was revoked or had expired before the request arrived, or whose
\* key had been replaced by then, opens no handler behind authentication, and a
\* handler there always finds its caller.
LateTokensStayOut ==
  \A r \in Requests :
    /\ Handled(r) /\ call[r].path \notin AuthPublic =>
         r \notin late /\ context[r] = call[r].token /\ context[r] # NoToken
    /\ pc[r] = "permission" /\ call[r].path \notin PermissionPublic => context[r] # NoToken

\* The process would sign t as it is once more: what decides on keys, in the
\* settings and the key files, has not changed since t was signed.
SignedAsNow(t) == signed[t] = GenerateToken(config, keyFile, signed[t].claims)

\* Nobody is sent away without cause.  A token the service has issued is only
\* answered 401, or "inactive", when it has ended, when settings or key files
\* have changed so that it would be signed otherwise now, or when it is an ID
\* token.  Restarts with the same settings, requests on other connections and
\* the rotation of other tokens are no cause.  The one exception: a process
\* set to RS256 refuses what it signs itself, as verify_token takes everything
\* for HS256.
RefusedForCause ==
  \A r \in Requests :
    LET t == call[r].token IN
    status[r] \in {"401", "inactive"} /\ t \in Tokens =>
      \/ t \in ended
      \/ ~SignedAsNow(t)
      \/ signed[t].claims.kind = "id"
      \/ config.algorithm = "RS256"
=============================================================================
