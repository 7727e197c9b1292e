--------------------------- MODULE PerimeterProofs ---------------------------
(***************************************************************************)
(* Proofs about what a request passes before a handler sees it: the reverse*)
(* proxy (Proxy) and the layers in front of the oauth service's handlers   *)
(* (AccessControl).                                                        *)
(***************************************************************************)
EXTENDS AccessControl, Proxy, FiniteSetTheorems, SequenceTheorems, WellFoundedInduction, TLAPS

-----------------------------------------------------------------------------
(* The permission table.                                                   *)

\* Every row is one of four shapes.
LEMMA RowShapes ==
  ASSUME NEW row \in RoutePermissions
  PROVE  \/ \E m \in DOMAIN CollectionAction, f \in Resources :
              row = Row(m, <<"api", "admin", f>>, f, CollectionAction[m])
         \/ \E m \in DOMAIN ItemAction, f \in Resources :
              row = Row(m, <<"api", "admin", f, Param>>, f, ItemAction[m])
         \/ \E m \in {"GET", "POST", "DELETE"} :
              row = Row(m, <<"api", "admin", "roles", Param, "permissions">>, "roles",
                        IF m = "GET" THEN "read" ELSE "manage")
         \/ \E m \in {"GET", "POST", "DELETE"} :
              row = Row(m, <<"api", "admin", "users", Param, "roles">>, "users",
                        IF m = "GET" THEN "read" ELSE "manage_roles")
BY DEF RoutePermissions

\* What a path that matches a row looks like, and what the row then asks for.
LEMMA MatchedPath ==
  ASSUME NEW q \in Calls, NEW row \in Rows(q)
  PROVE  /\ q.path[2] = "admin" /\ row.method = q.method
         /\ \/ /\ Len(q.path) = 3 /\ q.path[3] \in Resources
               /\ row.required = {<<q.path[3], CollectionAction[q.method]>>}
            \/ /\ Len(q.path) = 4 /\ q.path[3] \in Resources
               /\ row.required = {<<q.path[3], ItemAction[q.method]>>}
            \/ /\ Len(q.path) = 5 /\ q.path[3] = "roles"
               /\ row.required = {<<"roles", IF q.method = "GET" THEN "read" ELSE "manage">>}
            \/ /\ Len(q.path) = 5 /\ q.path[3] = "users"
               /\ row.required = {<<"users", IF q.method = "GET" THEN "read" ELSE "manage_roles">>}
<1>1. /\ row \in RoutePermissions /\ row.method = q.method
      /\ Len(q.path) = Len(row.path)
      /\ \A i \in DOMAIN q.path : row.path[i] \in {Param, q.path[i]}
  BY DEF Rows, PathMatches
<1>2. CASE \E m \in DOMAIN CollectionAction, f \in Resources :
              row = Row(m, <<"api", "admin", f>>, f, CollectionAction[m])
  BY <1>1, <1>2 DEF Row, Param, Resources
<1>3. CASE \E m \in DOMAIN ItemAction, f \in Resources :
              row = Row(m, <<"api", "admin", f, Param>>, f, ItemAction[m])
  BY <1>1, <1>3 DEF Row, Param, Resources
<1>4. CASE \E m \in {"GET", "POST", "DELETE"} :
              row = Row(m, <<"api", "admin", "roles", Param, "permissions">>, "roles",
                        IF m = "GET" THEN "read" ELSE "manage")
  BY <1>1, <1>4 DEF Row, Param
<1>5. CASE \E m \in {"GET", "POST", "DELETE"} :
              row = Row(m, <<"api", "admin", "users", Param, "roles">>, "users",
                        IF m = "GET" THEN "read" ELSE "manage_roles")
  BY <1>1, <1>5 DEF Row, Param
<1> QED BY <1>1, <1>2, <1>3, <1>4, <1>5, RowShapes

\* The rows do not overlap: all that apply to one request ask for the same, so
\* that the order of the HashMap does not matter.
LEMMA RowsAgree ==
  ASSUME NEW q \in Calls, NEW row1 \in Rows(q), NEW row2 \in Rows(q)
  PROVE  row1.required = row2.required
<1> DEFINE Asked(row) ==
         \/ Len(q.path) = 3 /\ row.required = {<<q.path[3], CollectionAction[q.method]>>}
         \/ Len(q.path) = 4 /\ row.required = {<<q.path[3], ItemAction[q.method]>>}
         \/ /\ Len(q.path) = 5 /\ q.path[3] = "roles"
            /\ row.required = {<<"roles", IF q.method = "GET" THEN "read" ELSE "manage">>}
         \/ /\ Len(q.path) = 5 /\ q.path[3] = "users"
            /\ row.required = {<<"users", IF q.method = "GET" THEN "read" ELSE "manage_roles">>}
<1>1. Asked(row1) /\ Asked(row2)
  BY MatchedPath
<1> QED BY <1>1

\* No row applies to a path that is public.
LEMMA PublicHasNoRows ==
  ASSUME NEW q \in Calls, q.path \in AuthPublic
  PROVE  Rows(q) = {}
<1> SUFFICES ASSUME NEW row \in Rows(q) PROVE FALSE
  OBVIOUS
<1>1. q.path[2] = "admin" /\ Len(q.path) \in {3, 4, 5}
  BY MatchedPath
<1> QED BY <1>1 DEF AuthPublic

-----------------------------------------------------------------------------
(* What holds of every request.                                            *)

\* Request r has passed authentication, or permissions as well.
PastAuth(r) ==
  pc[r] \in {"permission", "cors", "router"} \/ status[r] \in {"403", "preflight", "unrouted"} \/ Handled(r)
PastPermissions(r) == pc[r] \in {"cors", "router"} \/ Handled(r)

\* A request has something to ask, with a token that was issued or none.
Presented(r) ==
  pc[r] # "idle" => call[r] \in Calls /\ (call[r].token \in Tokens => signed[call[r].token] # NoJwt)

\* The caller is known to be the bearer of the request's own token.
Identified(r) ==
  /\ pc[r] \in {"idle", "rate_limit", "auth"} => context[r] = NoToken
  /\ context[r] # NoToken => context[r] = call[r].token
  /\ PastAuth(r) /\ call[r].path \notin AuthPublic => context[r] # NoToken /\ r \notin late

Permitted(r) ==
  /\ PastPermissions(r) => \A row \in Rows(call[r]) : Permission(r, row)
  /\ status[r] = "403" => Rows(call[r]) # {} /\ \A row \in Rows(call[r]) : ~Permission(r, row)

\* Why an issued token may be refused.
Cause(t) ==
  t \in ended \/ ~SignedAsNow(t) \/ signed[t].claims.kind = "id" \/ config.algorithm = "RS256"

Explained(r) ==
  status[r] \in {"401", "inactive"} /\ call[r].token \in Tokens => Cause(call[r].token)

RequestInv(r) == Presented(r) /\ Identified(r) /\ Permitted(r) /\ Explained(r)

\* Nothing is signed without a key.
KeysAreReal == \A t \in Tokens : signed[t] # NoJwt => signed[t].key # NoKey

\* No token was signed with a key file that is still to come.
KeysAreOld == \A t \in Tokens : signed[t].key.source = "file" => signed[t].key.key <= keyFile.key

\* A token that was refused on arrival stays refused.
StillRefused(r) ==
  pc[r] # "idle" /\ (pc[r] \in {"rate_limit", "auth"} => ~Introspect(call[r].token))
LateStay == \A r \in late : StillRefused(r)

GateInv == TypeOK /\ KeysAreReal /\ KeysAreOld /\ LateStay /\ \A r \in Requests : RequestInv(r)

-----------------------------------------------------------------------------
(* Types.                                                                  *)

Layered == {"idle", "rate_limit", "auth", "permission", "cors", "router", "done"}

\* A token that is signed is one that some start could have signed.
LEMMA SignedIsJwt ==
  ASSUME TypeOK, NEW claims \in UserClaims \union ClientClaims
  PROVE  GenerateToken(config, keyFile, claims) \in Jwts
<1>1. PICK env \in Environments : config = FromEnv(env)
  BY DEF TypeOK
<1>2. keyFile \in [key : 1 .. MaxKey, form : Forms]
  BY DEF TypeOK
<1> QED BY <1>1, <1>2 DEF Jwts

LEMMA TypeInit == Init => TypeOK
<1> SUFFICES ASSUME Init PROVE TypeOK
  OBVIOUS
<1>1. keyFile \in [key : 1 .. MaxKey, form : Forms]
  BY AccessAssumption DEF Init, KeyFile
<1>2. signed \in [Tokens -> Jwts]
  BY DEF Init, Jwts
<1> QED BY <1>1, <1>2 DEF Init, TypeOK

\* What a handler's answer changes.
LEMMA TypeAnswer ==
  ASSUME TypeOK, NEW r \in Requests,
         NEW answer \in {"429", "401", "403", "preflight", "unrouted", "handled", "failed", "active", "inactive"},
         NEW from, Respond(r, from, answer),
         signed' \in [Tokens -> Jwts], ended' \subseteq {t \in Tokens : signed'[t] # NoJwt},
         audited' \subseteq Requests, hardened' \subseteq Requests
  PROVE  TypeOK'
BY DEF TypeOK, Respond, hostVars

LEMMA TypePass ==
  ASSUME TypeOK, NEW r \in Requests, NEW from, NEW to \in Layered \ {"done"},
         from # "done", Pass(r, from, to),
         context' \in [Requests -> Tokens \union {NoToken}]
  PROVE  TypeOK'
BY DEF TypeOK, Pass, Layered, hostVars, jwtVars

LEMMA TypeForget ==
  ASSUME TypeOK, NEW R \in SUBSET Requests, Forget(R), UNCHANGED <<keyFile, jwtVars>>,
         config' \in {FromEnv(env) : env \in Environments}
  PROVE  TypeOK'
BY DEF TypeOK, Forget, jwtVars

LEMMA TypeDispatch ==
  ASSUME TypeOK, NEW r \in Requests, Dispatch(r)
  PROVE  TypeOK'
<1>1. ASSUME NEW answer \in {"unrouted", "handled", "failed", "active", "inactive"},
             Answer(r, answer), UNCHANGED jwtVars
      PROVE  TypeOK'
  <2>1. audited' \subseteq Requests /\ hardened' \subseteq Requests
    BY <1>1 DEF Answer, Audit, Harden, TypeOK
  <2>2. signed' \in [Tokens -> Jwts] /\ ended' \subseteq {t \in Tokens : signed'[t] # NoJwt}
    BY <1>1 DEF jwtVars, TypeOK
  <2> QED BY <1>1, <2>1, <2>2, TypeAnswer DEF Answer
<1>2. CASE Unrouted(r)
  BY <1>1, <1>2 DEF Unrouted
<1>3. CASE Handle(r)
  BY <1>1, <1>3 DEF Handle
<1>4. ASSUME NEW claims \in UserClaims \union ClientClaims, Issue(r, claims),
             ended' \subseteq {t \in Tokens : signed[t] # NoJwt}
      PROVE  TypeOK'
  <2>1. signed' = signed \/ \E t \in Tokens :
          signed[t] = NoJwt /\ signed' = [signed EXCEPT ![t] = GenerateToken(config, keyFile, claims)]
    BY <1>4 DEF Issue
  <2>2. signed' \in [Tokens -> Jwts]
    BY <2>1, SignedIsJwt DEF TypeOK
  <2>3. ended' \subseteq {u \in Tokens : signed'[u] # NoJwt}
    BY <2>1, <1>4 DEF TypeOK
  <2>4. audited' \subseteq Requests /\ hardened' \subseteq Requests
    BY <1>4 DEF Issue, Answer, Audit, Harden, TypeOK
  <2> QED BY <1>4, <2>2, <2>3, <2>4, TypeAnswer DEF Issue, Answer
<1>5. CASE TokenEndpoint(r)
  <2>1. CASE Grant(r)
    BY <1>4, <2>1 DEF Grant, TypeOK
  <2>2. CASE Refresh(r)
    <3>1. call[r].token \in Tokens /\ signed[call[r].token] # NoJwt
      BY <2>2 DEF Refresh, Introspect, VerifyToken, VerifyTokenWithAlgorithm, NoJwt, Jwt
    <3>2. ended' \subseteq {t \in Tokens : signed[t] # NoJwt}
      BY <2>2, <3>1 DEF Refresh, TypeOK
    <3> QED BY <1>4, <2>2, <3>2 DEF Refresh, ClaimsOfUser
  <2> QED BY <1>1, <1>5, <2>1, <2>2 DEF TokenEndpoint, Fail
<1>6. CASE AuthenticateEndpoint(r)
  BY <1>1, <1>4, <1>6 DEF AuthenticateEndpoint, Fail, TypeOK
<1>7. CASE UserInfo(r)
  BY <1>1, <1>7 DEF UserInfo
<1>8. CASE IntrospectEndpoint(r)
  BY <1>1, <1>8 DEF IntrospectEndpoint
<1>9. CASE RevokeEndpoint(r)
  BY <1>1, <1>9 DEF RevokeEndpoint, Fail, ValidAuthCode, Introspect, jwtVars
<1> QED BY <1>2, <1>3, <1>5, <1>6, <1>7, <1>8, <1>9 DEF Dispatch

LEMMA TypeStep == TypeOK /\ [Next]_vars => TypeOK'
<1> SUFFICES ASSUME TypeOK, [Next]_vars PROVE TypeOK'
  OBVIOUS
<1>1. ASSUME NEW r \in Requests, NEW q \in Calls, Arrive(r, q)
      PROVE  TypeOK'
  BY <1>1 DEF Arrive, TypeOK, hostVars, jwtVars
<1>2. ASSUME NEW r \in Requests, NEW from \in {"rate_limit", "auth", "permission", "cors"},
             NEW answer \in {"429", "401", "403", "preflight"}, Refuse(r, from, answer)
      PROVE  TypeOK'
  <2>1. signed' \in [Tokens -> Jwts] /\ ended' \subseteq {t \in Tokens : signed'[t] # NoJwt}
    BY <1>2 DEF Refuse, jwtVars, TypeOK
  <2>2. audited' \subseteq Requests /\ hardened' \subseteq Requests
    BY <1>2 DEF Refuse, TypeOK
  <2> QED BY <1>2, <2>1, <2>2, TypeAnswer DEF Refuse
<1>3. ASSUME NEW r \in Requests, NEW from \in {"rate_limit", "auth", "permission", "cors"},
             NEW to \in {"auth", "permission", "cors", "router"}, Pass(r, from, to),
             UNCHANGED context \/ (Accepted(call[r].token) /\ context' = [context EXCEPT ![r] = call[r].token])
      PROVE  TypeOK'
  <2>1. context' \in [Requests -> Tokens \union {NoToken}]
    BY <1>3 DEF TypeOK, Accepted, Introspect
  <2> QED BY <1>3, <2>1, TypePass DEF Layered
<1>4. ASSUME NEW r \in Requests, RateLimit(r)
      PROVE  TypeOK'
  BY <1>2, <1>3, <1>4 DEF RateLimit
<1>5. ASSUME NEW r \in Requests, Authenticate(r)
      PROVE  TypeOK'
  BY <1>2, <1>3, <1>5 DEF Authenticate
<1>6. ASSUME NEW r \in Requests, CheckPermission(r)
      PROVE  TypeOK'
  BY <1>2, <1>3, <1>6 DEF CheckPermission
<1>7. ASSUME NEW r \in Requests, Cors(r)
      PROVE  TypeOK'
  BY <1>2, <1>3, <1>7 DEF Cors
<1>8. ASSUME NEW r \in Requests, Close(r)
      PROVE  TypeOK'
  BY <1>8, TypeForget DEF Close, hostVars, TypeOK
<1>9. ASSUME NEW t \in Tokens, End(t)
      PROVE  TypeOK'
  BY <1>9 DEF End, TypeOK, hostVars
<1>10. ASSUME NEW form \in Forms, ReplaceKeys(form)
       PROVE  TypeOK'
  <2>1. keyFile' \in [key : 1 .. MaxKey, form : Forms]
    BY <1>10, AccessAssumption DEF ReplaceKeys, KeyFile, TypeOK
  <2> QED BY <1>10, <2>1 DEF ReplaceKeys, TypeOK, jwtVars
<1>11. ASSUME NEW env \in Environments, Restart(env)
       PROVE  TypeOK'
  BY <1>11, TypeForget DEF Restart
<1>12. CASE UNCHANGED vars
  BY <1>12 DEF vars, hostVars, jwtVars, TypeOK
<1> QED BY <1>1, <1>4, <1>5, <1>6, <1>7, <1>8, <1>9, <1>10, <1>11, <1>12, TypeDispatch DEF Next

-----------------------------------------------------------------------------
(* Keys.                                                                   *)

\* What the process signs with HS256 it also verifies: there is a cause for
\* every refusal.
LEMMA RefusedHasCause ==
  ASSUME TypeOK, KeysAreReal, NEW t \in Tokens, signed[t] # NoJwt, ~Introspect(t)
  PROVE  Cause(t)
<1> SUFFICES ASSUME ~Cause(t) PROVE Introspect(t)
  OBVIOUS
<1>1. /\ t \notin ended /\ config.algorithm # "RS256" /\ signed[t].claims.kind # "id"
      /\ signed[t] = GenerateToken(config, keyFile, signed[t].claims)
  BY DEF Cause, SignedAsNow
<1>2. /\ signed[t].algorithm = config.algorithm /\ signed[t].key = Secret(config, keyFile)
      /\ LoadDecodingKey(config, keyFile) = Secret(config, keyFile)
  BY <1>1 DEF GenerateToken, Jwt, LoadEncodingKey, LoadDecodingKey
<1>3. Secret(config, keyFile) # NoKey
  BY <1>2 DEF KeysAreReal
<1>4. Secret(config, keyFile).family = "hmac"
  BY <1>3 DEF Secret, Key
<1>5. config.algorithm = "HS256"
  <2>1. PICK env \in Environments : config = FromEnv(env)
    BY DEF TypeOK
  <2>2. config # NoConfig
    BY <1>3 DEF NoConfig, Secret
  <2> QED BY <1>1, <2>1, <2>2 DEF FromEnv, Config, Algorithm
<1> QED BY <1>1, <1>2, <1>4, <1>5 DEF Introspect, VerifyToken, VerifyTokenWithAlgorithm, Family

\* A key file that comes later verifies nothing that was signed before: what
\* the process accepts with it, it accepted without.
LEMMA NewKeysAdmitNobody ==
  ASSUME TypeOK, KeysAreOld, NEW t \in Tokens, NEW form \in Forms,
         VerifyToken(signed[t], LoadDecodingKey(config, KeyFile(keyFile.key + 1, form)))
  PROVE  VerifyToken(signed[t], LoadDecodingKey(config, keyFile))
<1> DEFINE new == KeyFile(keyFile.key + 1, form)
           key == LoadDecodingKey(config, new)
<1>1. key.family = "hmac" /\ signed[t].key = key
  BY DEF VerifyToken, VerifyTokenWithAlgorithm, Family
<1>2. config.algorithm # "RS256" /\ key = Secret(config, new)
  BY <1>1 DEF LoadDecodingKey, RsaKey, Key, NoKey
<1>3. keyFile.key \in Nat /\ new.key = keyFile.key + 1
  BY DEF TypeOK, KeyFile
<1>4. CASE config.private /\ new.form # "missing"
  <2>1. key = Key("hmac", "file", keyFile.key + 1)
    BY <1>2, <1>3, <1>4 DEF Secret
  <2> QED BY <1>1, <1>3, <2>1 DEF Key, KeysAreOld
<1>5. CASE ~config.private /\ config.secret # 0
  <2>1. Secret(config, new) = Key("hmac", "variable", config.secret)
        /\ Secret(config, keyFile) = Key("hmac", "variable", config.secret)
    BY <1>5 DEF Secret
  <2> QED BY <1>2, <2>1 DEF LoadDecodingKey
<1>6. CASE ~(config.private /\ new.form # "missing") /\ ~(~config.private /\ config.secret # 0)
  BY <1>1, <1>2, <1>6 DEF Secret, NoKey, Key
<1> QED BY <1>4, <1>5, <1>6

LEMMA SignedKeyIsOld ==
  ASSUME TypeOK, NEW claims, GenerateToken(config, keyFile, claims).key.source = "file"
  PROVE  GenerateToken(config, keyFile, claims).key.key = keyFile.key
BY DEF GenerateToken, Jwt, LoadEncodingKey, RsaKey, Secret, Key, NoKey

AllClaims == UserClaims \union ClientClaims

\* What is signed stays as it is.
SignedStay == \A t \in Tokens : signed[t] # NoJwt => signed'[t] = signed[t]

\* One more token is signed, with the key of the moment.
NewlySigned ==
  /\ config' = config /\ keyFile' = keyFile /\ LoadEncodingKey(config, keyFile) # NoKey
  /\ \E t \in Tokens, claims \in AllClaims :
       signed' = [signed EXCEPT ![t] = GenerateToken(config, keyFile, claims)]

LEMMA SignedStep ==
  ASSUME TypeOK, [Next]_vars
  PROVE  /\ SignedStay /\ ended \subseteq ended'
         /\ signed' = signed \/ NewlySigned
<1>1. ASSUME NEW r \in Requests, NEW claims \in AllClaims, Issue(r, claims)
      PROVE  SignedStay /\ (signed' = signed \/ NewlySigned)
  BY <1>1 DEF Issue, NewlySigned, SignedStay, TypeOK, Answer, Respond, hostVars
<1>2. ASSUME NEW r \in Requests, Dispatch(r)
      PROVE  /\ ended \subseteq ended'
             /\ signed' = signed \/ \E claims \in AllClaims : Issue(r, claims)
  <2>1. CASE Unrouted(r) \/ Handle(r) \/ UserInfo(r) \/ IntrospectEndpoint(r) \/ RevokeEndpoint(r)
    BY <2>1 DEF Unrouted, Handle, UserInfo, IntrospectEndpoint, RevokeEndpoint, Fail, jwtVars
  <2>2. CASE TokenEndpoint(r) \/ AuthenticateEndpoint(r)
    BY <2>2 DEF TokenEndpoint, AuthenticateEndpoint, Grant, Refresh, ClaimsOfUser, Fail, jwtVars, AllClaims
  <2> QED BY <1>2, <2>1, <2>2 DEF Dispatch
<1>3. ASSUME NEW r \in Requests, RateLimit(r) \/ Authenticate(r) \/ CheckPermission(r) \/ Cors(r) \/ Close(r)
      PROVE  UNCHANGED jwtVars
  BY <1>3 DEF RateLimit, Authenticate, CheckPermission, Cors, Close, Pass, Refuse
<1>4. CASE \/ \E r \in Requests, q \in Calls : Arrive(r, q)
           \/ \E t \in Tokens : End(t)
           \/ \E form \in Forms : ReplaceKeys(form)
           \/ \E env \in Environments : Restart(env)
           \/ UNCHANGED vars
  BY <1>4 DEF Arrive, End, ReplaceKeys, Restart, vars, jwtVars, SignedStay
<1> QED BY <1>1, <1>2, <1>3, <1>4 DEF Next, jwtVars, SignedStay

LEMMA KeysStep ==
  ASSUME TypeOK, KeysAreOld, [Next]_vars
  PROVE  KeysAreOld'
<1>1. CASE UNCHANGED signed
  <2>1. keyFile' = keyFile \/ \E form \in Forms : ReplaceKeys(form)
    <3>1. ASSUME NEW r \in Requests,
                 RateLimit(r) \/ Authenticate(r) \/ CheckPermission(r) \/ Cors(r) \/ Close(r) \/ Dispatch(r)
          PROVE  keyFile' = keyFile
      BY <3>1 DEF RateLimit, Authenticate, CheckPermission, Cors, Close, Pass, Refuse, Respond, hostVars,
        Dispatch, Unrouted, Handle, TokenEndpoint, AuthenticateEndpoint, UserInfo, IntrospectEndpoint,
        RevokeEndpoint, Grant, Refresh, Fail, Issue, Answer
    <3> QED BY <3>1 DEF Next, Arrive, End, Restart, vars, hostVars
  <2>2. keyFile.key <= keyFile'.key
    BY <2>1 DEF ReplaceKeys, KeyFile, TypeOK
  <2>3. keyFile.key \in Nat /\ keyFile'.key \in Nat
    BY TypeStep DEF TypeOK
  <2>4. \A t \in Tokens : signed[t].key.source = "file" => signed[t].key.key \in Nat
    <3> SUFFICES ASSUME NEW t \in Tokens, signed[t].key.source = "file" PROVE signed[t].key.key \in Nat
      OBVIOUS
    <3>1. signed[t] # NoJwt
      BY DEF NoJwt, Jwt, NoKey, Key
    <3>2. PICK env \in Environments, keys \in [key : 1 .. MaxKey, form : Forms], claims \in AllClaims :
            signed[t] = GenerateToken(FromEnv(env), keys, claims)
      BY <3>1 DEF TypeOK, Jwts, AllClaims
    <3> QED BY <3>2 DEF GenerateToken, Jwt, LoadEncodingKey, RsaKey, Secret, Key, NoKey
  <2> QED BY <1>1, <2>2, <2>3, <2>4 DEF KeysAreOld
<1>2. CASE ~UNCHANGED signed
  <2>1. PICK t \in Tokens, claims \in AllClaims :
          keyFile' = keyFile /\ signed' = [signed EXCEPT ![t] = GenerateToken(config, keyFile, claims)]
    BY <1>2, SignedStep DEF NewlySigned
  <2>2. signed'[t].key.source = "file" => signed'[t].key.key <= keyFile.key
    BY <2>1, SignedKeyIsOld DEF TypeOK
  <2> QED BY <2>1, <2>2 DEF KeysAreOld, TypeOK
<1> QED BY <1>1, <1>2

LEMMA RealStep ==
  ASSUME TypeOK, KeysAreReal, [Next]_vars
  PROVE  KeysAreReal'
<1>1. CASE signed' = signed
  BY <1>1 DEF KeysAreReal
<1>2. CASE NewlySigned
  BY <1>2 DEF NewlySigned, KeysAreReal, GenerateToken, Jwt, TypeOK
<1> QED BY <1>1, <1>2, SignedStep

\* Causes do not go away while the process runs: what has ended stays ended, and
\* no later key file makes a token again what would be signed now.
CausesStay == \A t \in Tokens : signed[t] # NoJwt /\ Cause(t) => Cause(t)'

LEMMA KeyFileStep ==
  ASSUME TypeOK, [Next]_vars
  PROVE  keyFile' = keyFile \/ \E form \in Forms : keyFile' = KeyFile(keyFile.key + 1, form)
<1>1. ASSUME NEW r \in Requests, RateLimit(r) \/ Authenticate(r) \/ CheckPermission(r) \/ Cors(r) \/ Close(r)
      PROVE  keyFile' = keyFile
  BY <1>1 DEF RateLimit, Authenticate, CheckPermission, Cors, Close, Pass, Refuse, Respond, hostVars
<1>2. ASSUME NEW r \in Requests, Dispatch(r)
      PROVE  keyFile' = keyFile
  BY <1>2 DEF Dispatch, Unrouted, Handle, TokenEndpoint, AuthenticateEndpoint, UserInfo, IntrospectEndpoint,
    RevokeEndpoint, Grant, Refresh, Fail, Issue, Answer, Respond, hostVars
<1> QED BY <1>1, <1>2 DEF Next, Arrive, End, ReplaceKeys, Restart, vars, hostVars

LEMMA CausesStep ==
  ASSUME TypeOK, KeysAreReal, KeysAreOld, [Next]_vars, config' = config
  PROVE  CausesStay
<1> SUFFICES ASSUME NEW t \in Tokens, signed[t] # NoJwt, Cause(t), ~Cause(t)' PROVE FALSE
  BY DEF CausesStay
<1>1. signed'[t] = signed[t] /\ ended \subseteq ended'
  BY SignedStep DEF SignedStay
<1>2. /\ ~SignedAsNow(t) /\ config.algorithm # "RS256"
      /\ signed[t] = GenerateToken(config, keyFile', signed[t].claims)
  BY <1>1 DEF Cause, SignedAsNow
<1>3. PICK form \in Forms : keyFile' = KeyFile(keyFile.key + 1, form)
  BY <1>2, KeyFileStep DEF SignedAsNow
<1>4. signed[t].key = Secret(config, keyFile') /\ signed[t].key # NoKey
  BY <1>2 DEF GenerateToken, Jwt, LoadEncodingKey, KeysAreReal
<1>5. CASE config.private
  <2>1. signed[t].key = Key("hmac", "file", keyFile.key + 1)
    BY <1>3, <1>4, <1>5 DEF Secret, KeyFile
  <2> QED BY <2>1 DEF Key, KeysAreOld, TypeOK
<1>6. CASE ~config.private
  <2>1. Secret(config, keyFile') = Secret(config, keyFile)
    BY <1>6 DEF Secret
  <2> QED BY <1>2, <2>1 DEF SignedAsNow, GenerateToken, LoadEncodingKey
<1> QED BY <1>5, <1>6

-----------------------------------------------------------------------------
(* Requests.                                                               *)

Untouched(r) ==
  /\ pc'[r] = pc[r] /\ call'[r] = call[r] /\ context'[r] = context[r] /\ status'[r] = status[r]
  /\ r \in late' <=> r \in late

\* A request that a step does not touch keeps its part of the invariant, unless
\* the process is started again.
LEMMA Frame ==
  ASSUME TypeOK, NEW r \in Requests, RequestInv(r), Untouched(r), SignedStay, CausesStay
  PROVE  RequestInv(r)'
<1>1. call'[r].token = call[r].token
  BY DEF Untouched
<1>2. pc[r] # "idle" /\ call[r].token \in Tokens => signed'[call[r].token] = signed[call[r].token]
  BY DEF RequestInv, Presented, SignedStay
<1>3. Presented(r)'
  BY <1>2 DEF RequestInv, Presented, Untouched
<1>4. Identified(r)'
  BY DEF RequestInv, Identified, Untouched, PastAuth, Handled
<1>5. Permitted(r)'
  <2>1. Rows(call[r])' = Rows(call[r])
    BY DEF Rows, Untouched
  <2>2. pc[r] # "idle" => \A row : Permission(r, row)' <=> Permission(r, row)
    BY <1>2 DEF Permission, Permissions, Untouched
  <2>3. pc[r] # "idle" \/ status[r] = "none"
    BY DEF TypeOK
  <2>4. pc[r] # "idle" \/ (~PastPermissions(r)' /\ status'[r] # "403")
    BY <2>3 DEF Untouched, PastPermissions, Handled
  <2> QED BY <2>1, <2>2, <2>4 DEF RequestInv, Permitted, Untouched, PastPermissions, Handled
<1>6. Explained(r)'
  <2>1. pc[r] # "idle" \/ status'[r] = "none"
    BY DEF TypeOK, Untouched
  <2> PICK t : t = call[r].token
    OBVIOUS
  <2>2. t \in Tokens /\ signed[t] # NoJwt /\ Cause(t) => Cause(t)'
    BY DEF CausesStay
  <2>3. t \in Tokens /\ status'[r] \in {"401", "inactive"} => Cause(t)'
    BY <2>1, <2>2 DEF RequestInv, Presented, Explained, Untouched
  <2> QED BY <1>1, <2>3 DEF Explained, Cause, SignedAsNow
<1> QED BY <1>3, <1>4, <1>5, <1>6 DEF RequestInv

LEMMA ArriveStep ==
  ASSUME GateInv, NEW r \in Requests, NEW q \in Calls, Arrive(r, q)
  PROVE  RequestInv(r)' /\ \A s \in Requests \ {r} : Untouched(s)
<1>1. /\ pc'[r] = "rate_limit" /\ call'[r] = q /\ context'[r] = NoToken /\ status'[r] = "none"
      /\ signed' = signed
  BY DEF GateInv, TypeOK, Arrive, RequestInv, Identified, jwtVars
<1>2. q \in Calls /\ (q.token \in Tokens => signed[q.token] # NoJwt)
  BY DEF Arrive
<1> QED BY <1>1, <1>2 DEF GateInv, TypeOK, Arrive, Untouched, RequestInv, Presented, Identified, Permitted,
          Explained, PastAuth, PastPermissions, Handled

\* A layer lets a request pass, or answers it.
LEMMA PassOnlyMoves ==
  ASSUME TypeOK, NEW r \in Requests, NEW from, NEW to, Pass(r, from, to),
         context' = [context EXCEPT ![r] = context'[r]]
  PROVE  /\ pc[r] = from /\ pc'[r] = to /\ call'[r] = call[r] /\ status'[r] = status[r]
         /\ UNCHANGED <<config, keyFile, signed, ended, late>>
         /\ \A s \in Requests \ {r} : Untouched(s)
BY DEF TypeOK, Pass, Untouched, hostVars, jwtVars

LEMMA RefuseOnlyAnswers ==
  ASSUME TypeOK, NEW r \in Requests, NEW from, NEW answer, Refuse(r, from, answer)
  PROVE  /\ pc[r] = from /\ pc'[r] = "done" /\ call'[r] = call[r] /\ status'[r] = answer
         /\ context'[r] = context[r]
         /\ UNCHANGED <<config, keyFile, signed, ended, late>>
         /\ \A s \in Requests \ {r} : Untouched(s)
BY DEF TypeOK, Refuse, Respond, Untouched, hostVars, jwtVars

LEMMA RateLimitStep ==
  ASSUME GateInv, NEW r \in Requests, RateLimit(r)
  PROVE  RequestInv(r)' /\ \A s \in Requests \ {r} : Untouched(s)
<1> USE DEF GateInv
<1>1. status[r] = "none"
  BY DEF RateLimit, Pass, Refuse, Respond, TypeOK
<1>2. CASE Pass(r, "rate_limit", "auth") /\ UNCHANGED context
  <2>1. context' = [context EXCEPT ![r] = context'[r]]
    BY <1>2 DEF TypeOK
  <2> QED BY <1>1, <1>2, <2>1, PassOnlyMoves DEF RequestInv, Presented, Identified, Permitted, Explained,
            PastAuth, PastPermissions, Handled
<1>3. CASE Refuse(r, "rate_limit", "429")
  BY <1>1, <1>3, RefuseOnlyAnswers DEF RequestInv, Presented, Identified, Permitted, Explained,
    PastAuth, PastPermissions, Handled
<1> QED BY <1>2, <1>3 DEF RateLimit

LEMMA AuthenticateStep ==
  ASSUME GateInv, NEW r \in Requests, Authenticate(r)
  PROVE  RequestInv(r)' /\ \A s \in Requests \ {r} : Untouched(s)
<1> USE DEF GateInv
<1>1. status[r] = "none" /\ pc[r] = "auth" /\ context[r] = NoToken
  BY DEF Authenticate, Pass, Refuse, Respond, TypeOK, RequestInv, Identified
<1>2. CASE call[r].path \in AuthPublic /\ Pass(r, "auth", "permission") /\ UNCHANGED context
  <2>1. context' = [context EXCEPT ![r] = context'[r]]
    BY <1>2 DEF TypeOK
  <2> QED BY <1>1, <1>2, <2>1, PassOnlyMoves DEF RequestInv, Presented, Identified, Permitted, Explained,
            PastAuth, PastPermissions, Handled
<1>3. CASE /\ call[r].path \notin AuthPublic /\ Accepted(call[r].token)
           /\ Pass(r, "auth", "permission")
           /\ context' = [context EXCEPT ![r] = call[r].token]
  <2>1. context' = [context EXCEPT ![r] = context'[r]] /\ context'[r] = call[r].token
    BY <1>3 DEF TypeOK
  <2>2. call[r].token \in Tokens
    BY <1>3 DEF Accepted, Introspect
  <2>3. r \notin late
    BY <1>1, <1>3 DEF LateStay, StillRefused, Accepted
  <2>4. /\ pc'[r] = "permission" /\ call'[r] = call[r] /\ status'[r] = "none" /\ context'[r] = call[r].token
        /\ UNCHANGED <<config, signed, late>>
        /\ \A s \in Requests \ {r} : Untouched(s)
    <3>1. Pass(r, "auth", "permission")
      BY <1>3
    <3> HIDE <1>3
    <3> QED BY <1>1, <2>1, <3>1, PassOnlyMoves
  <2>5. Identified(r)'
    BY <2>2, <2>3, <2>4, AccessAssumption DEF Identified
  <2> QED BY <1>1, <2>4, <2>5 DEF RequestInv, Presented, Permitted, Explained, PastPermissions, Handled
<1>4. CASE ~Accepted(call[r].token) /\ Refuse(r, "auth", "401")
  <2>1. /\ pc'[r] = "done" /\ call'[r] = call[r] /\ status'[r] = "401" /\ context'[r] = context[r]
        /\ UNCHANGED <<config, keyFile, signed, ended, late>>
        /\ \A s \in Requests \ {r} : Untouched(s)
    BY <1>4, RefuseOnlyAnswers
  <2>2. call[r].token \in Tokens => Cause(call[r].token)
    BY <1>1, <1>4, RefusedHasCause DEF Accepted, RequestInv, Presented
  <2>3. Explained(r)'
    BY <2>1, <2>2 DEF Explained, Cause, SignedAsNow
  <2> QED BY <1>1, <2>1, <2>3 DEF RequestInv, Presented, Identified, Permitted, PastAuth, PastPermissions, Handled
<1> QED BY <1>2, <1>3, <1>4 DEF Authenticate

LEMMA CheckPermissionStep ==
  ASSUME GateInv, NEW r \in Requests, CheckPermission(r)
  PROVE  RequestInv(r)' /\ \A s \in Requests \ {r} : Untouched(s)
<1> USE DEF GateInv
<1>1. status[r] = "none" /\ pc[r] = "permission" /\ call[r] \in Calls
  BY DEF CheckPermission, Pass, Refuse, Respond, TypeOK, RequestInv, Presented
<1>2. context[r] # NoToken => context[r] = call[r].token /\ context[r] \in Tokens
  BY AccessAssumption DEF RequestInv, Identified, TypeOK
<1>3. CASE /\ Pass(r, "permission", "cors") /\ UNCHANGED context
           /\ \/ call[r].path \in PermissionPublic
              \/ context[r] # NoToken /\ (Rows(call[r]) = {} \/ \E row \in Rows(call[r]) : Holds(r, row))
  <2>1. context' = [context EXCEPT ![r] = context'[r]]
    BY <1>3 DEF TypeOK
  <2>2. \A row \in Rows(call[r]) : Permission(r, row)
    <3>1. CASE call[r].path \in PermissionPublic
      BY <1>1, <3>1, PublicHasNoRows DEF PermissionPublic
    <3>2. CASE context[r] # NoToken /\ \E row \in Rows(call[r]) : Holds(r, row)
      BY <1>1, <1>2, <3>2, RowsAgree DEF Holds, Permission
    <3> QED BY <1>3, <3>1, <3>2
  <2>3. /\ pc'[r] = "cors" /\ call'[r] = call[r] /\ status'[r] = "none" /\ context'[r] = context[r]
        /\ UNCHANGED <<config, signed, late>>
        /\ \A s \in Requests \ {r} : Untouched(s)
    BY <1>1, <1>3, <2>1, PassOnlyMoves
  <2>4. Permitted(r)'
    BY <2>2, <2>3 DEF Permitted, Permission, Permissions, Rows
  <2>5. Identified(r)'
    BY <1>1, <2>3 DEF RequestInv, Identified, PastAuth, Handled
  <2> QED BY <1>1, <2>3, <2>4, <2>5 DEF RequestInv, Presented, Explained, Handled
<1>4. CASE /\ context[r] # NoToken
           /\ \E row \in Rows(call[r]) : ~Holds(r, row)
           /\ Refuse(r, "permission", "403")
  <2>1. Rows(call[r]) # {} /\ \A row \in Rows(call[r]) : ~Permission(r, row)
    BY <1>1, <1>2, <1>4, RowsAgree DEF Holds, Permission
  <2>2. /\ pc'[r] = "done" /\ call'[r] = call[r] /\ status'[r] = "403" /\ context'[r] = context[r]
        /\ UNCHANGED <<config, signed, late>>
        /\ \A s \in Requests \ {r} : Untouched(s)
    BY <1>4, RefuseOnlyAnswers
  <2>3. Permitted(r)'
    BY <2>1, <2>2 DEF Permitted, Permission, Permissions, Rows, PastPermissions, Handled
  <2>4. Identified(r)'
    BY <1>1, <1>4, <2>2 DEF RequestInv, Identified, PastAuth, Handled
  <2> QED BY <1>1, <2>2, <2>3, <2>4 DEF RequestInv, Presented, Explained, Handled
<1> QED BY <1>3, <1>4 DEF CheckPermission

LEMMA CorsStep ==
  ASSUME GateInv, NEW r \in Requests, Cors(r)
  PROVE  RequestInv(r)' /\ \A s \in Requests \ {r} : Untouched(s)
<1> USE DEF GateInv
<1>1. status[r] = "none" /\ pc[r] = "cors"
  BY DEF Cors, Pass, Refuse, Respond, TypeOK
<1>2. \E to, answer : /\ <<to, answer>> \in {<<"router", "none">>, <<"done", "preflight">>}
        /\ pc'[r] = to /\ call'[r] = call[r] /\ status'[r] = answer /\ context'[r] = context[r]
        /\ UNCHANGED <<config, signed, late>>
        /\ \A s \in Requests \ {r} : Untouched(s)
  <2>1. CASE Refuse(r, "cors", "preflight")
    BY <2>1, RefuseOnlyAnswers
  <2>2. CASE Pass(r, "cors", "router") /\ UNCHANGED context
    <3>1. context' = [context EXCEPT ![r] = context'[r]]
      BY <2>2 DEF TypeOK
    <3> QED BY <1>1, <2>2, <3>1, PassOnlyMoves
  <2> QED BY <2>1, <2>2 DEF Cors
<1>3. Permitted(r)'
  BY <1>1, <1>2 DEF RequestInv, Permitted, Permission, Permissions, Rows, PastPermissions, Handled
<1>4. Identified(r)'
  BY <1>1, <1>2 DEF RequestInv, Identified, PastAuth, Handled
<1> QED BY <1>1, <1>2, <1>3, <1>4 DEF RequestInv, Presented, Explained, Handled

\* Whatever handler runs, and whether it does, the request is answered.
LEMMA DispatchAnswers ==
  ASSUME TypeOK, NEW r \in Requests, Dispatch(r)
  PROVE  \E answer \in {"unrouted", "handled", "failed", "active", "inactive"} :
           Answer(r, answer) /\ (answer = "inactive" => ~Introspect(call[r].token))
<1>1. CASE IntrospectEndpoint(r)
  BY <1>1 DEF IntrospectEndpoint
<1>2. CASE Unrouted(r) \/ Handle(r) \/ TokenEndpoint(r) \/ AuthenticateEndpoint(r) \/ UserInfo(r) \/ RevokeEndpoint(r)
  BY <1>2 DEF Unrouted, Handle, TokenEndpoint, AuthenticateEndpoint, UserInfo, RevokeEndpoint, Grant, Refresh,
    Issue, Fail
<1> QED BY <1>1, <1>2 DEF Dispatch

LEMMA DispatchStep ==
  ASSUME GateInv, NEW r \in Requests, Dispatch(r)
  PROVE  RequestInv(r)' /\ \A s \in Requests \ {r} : Untouched(s)
<1> USE DEF GateInv
<1>1. PICK answer \in {"unrouted", "handled", "failed", "active", "inactive"} :
        Answer(r, answer) /\ (answer = "inactive" => ~Introspect(call[r].token))
  BY DispatchAnswers
<1>2. /\ pc[r] = "router" /\ pc'[r] = "done" /\ status'[r] = answer /\ call'[r] = call[r]
      /\ context'[r] = context[r] /\ config' = config /\ late' = late
      /\ \A s \in Requests \ {r} : Untouched(s)
  BY <1>1 DEF Answer, Respond, Untouched, hostVars, TypeOK
<1>3. Next
  BY DEF Next
<1>4. SignedStay /\ call[r] \in Calls /\ (call[r].token \in Tokens => signed[call[r].token] # NoJwt)
  BY <1>2, <1>3, SignedStep DEF RequestInv, Presented
<1>5. Presented(r)'
  BY <1>2, <1>4 DEF Presented, SignedStay
<1>6. Identified(r)'
  BY <1>2 DEF RequestInv, Identified, PastAuth, Handled
<1>7. Permitted(r)'
  <2>1. \A row \in Rows(call[r]) : Permission(r, row)
    BY <1>2 DEF RequestInv, Permitted, PastPermissions
  <2>2. \A row \in Rows(call[r]) : Permission(r, row)'
    BY <1>2, <1>4, <2>1 DEF Permission, Permissions, SignedStay
  <2> QED BY <1>1, <1>2, <2>2 DEF Permitted, Rows
<1>8. Explained(r)'
  <2>1. CausesStay
    BY <1>2, <1>3, CausesStep
  <2> PICK t : t = call[r].token
    OBVIOUS
  <2>2. answer = "inactive" /\ t \in Tokens => Cause(t)
    BY <1>1, <1>4, RefusedHasCause
  <2>3. answer = "inactive" /\ t \in Tokens => Cause(t)'
    BY <1>4, <2>1, <2>2 DEF CausesStay
  <2> QED BY <1>1, <1>2, <2>3 DEF Explained, Cause, SignedAsNow
<1> QED BY <1>2, <1>5, <1>6, <1>7, <1>8 DEF RequestInv

\* What every step leaves of the invariant to every request.
LEMMA RequestStep ==
  ASSUME GateInv, [Next]_vars, NEW r \in Requests
  PROVE  RequestInv(r)'
<1> USE DEF GateInv
<1>1. SignedStay
  BY SignedStep
<1>2. ASSUME NEW s \in Requests, config' = config,
             RequestInv(s)' /\ \A u \in Requests \ {s} : Untouched(u)
      PROVE  RequestInv(r)'
  BY <1>1, <1>2, CausesStep, Frame
<1>3. ASSUME NEW s \in Requests, NEW q \in Calls, Arrive(s, q)
      PROVE  RequestInv(r)'
  <2>1. config' = config
    BY <1>3 DEF Arrive, hostVars
  <2> QED BY <1>2, <1>3, <2>1, ArriveStep
<1>4. ASSUME NEW s \in Requests, RateLimit(s) \/ Authenticate(s) \/ CheckPermission(s) \/ Cors(s)
      PROVE  RequestInv(r)'
  <2>1. config' = config
    BY <1>4 DEF RateLimit, Authenticate, CheckPermission, Cors, Pass, Refuse, Respond, hostVars
  <2> QED BY <1>2, <1>4, <2>1, RateLimitStep, AuthenticateStep, CheckPermissionStep, CorsStep
<1>5. ASSUME NEW s \in Requests, Dispatch(s)
      PROVE  RequestInv(r)'
  <2>1. config' = config
    BY <1>5, DispatchAnswers DEF Answer, Respond, hostVars
  <2> QED BY <1>2, <1>5, <2>1, DispatchStep
<1>6. ASSUME NEW s \in Requests, Close(s)
      PROVE  RequestInv(r)'
  <2>1. CASE r = s
    <3>1. pc'[r] = "idle" /\ context'[r] = NoToken /\ status'[r] = "none"
      BY <1>6, <2>1 DEF Close, Forget
    <3> QED BY <3>1 DEF RequestInv, Presented, Identified, Permitted, Explained, PastAuth,
              PastPermissions, Handled
  <2>2. CASE r # s
    <3>1. Untouched(r) /\ config' = config
      BY <1>6, <2>2 DEF Close, Forget, Untouched, hostVars
    <3> QED BY <1>1, <3>1, CausesStep, Frame
  <2> QED BY <2>1, <2>2
<1>7. ASSUME NEW env \in Environments, Restart(env)
      PROVE  RequestInv(r)'
  <2>1. pc'[r] = "idle" /\ context'[r] = NoToken /\ status'[r] = "none"
    BY <1>7 DEF Restart, Forget
  <2> QED BY <2>1 DEF RequestInv, Presented, Identified, Permitted, Explained, PastAuth,
            PastPermissions, Handled
<1>8. CASE \/ \E t \in Tokens : End(t)
           \/ \E form \in Forms : ReplaceKeys(form)
           \/ UNCHANGED vars
  <2>1. Untouched(r) /\ config' = config
    BY <1>8 DEF End, ReplaceKeys, vars, hostVars, Untouched
  <2> QED BY <1>1, <2>1, CausesStep, Frame
<1> QED BY <1>3, <1>4, <1>5, <1>6, <1>7, <1>8 DEF Next

\* A token the process refuses stays refused, whatever happens to tokens and
\* keys, until the process is started with other settings.
LEMMA RefusedStaysRefused ==
  ASSUME TypeOK, KeysAreOld, [Next]_vars, config' = config,
         NEW t, ~Introspect(t), t \in Tokens => signed[t] # NoJwt
  PROVE  ~Introspect(t)'
<1> SUFFICES ASSUME Introspect(t)' PROVE FALSE
  OBVIOUS
<1>1. t \in Tokens \ ended /\ signed'[t] = signed[t]
  BY SignedStep DEF Introspect, SignedStay
<1>2. VerifyToken(signed[t], LoadDecodingKey(config, keyFile'))
  BY <1>1 DEF Introspect
<1>3. keyFile' = keyFile \/ \E form \in Forms : keyFile' = KeyFile(keyFile.key + 1, form)
  BY KeyFileStep
<1>4. VerifyToken(signed[t], LoadDecodingKey(config, keyFile))
  BY <1>1, <1>2, <1>3, NewKeysAdmitNobody
<1> QED BY <1>1, <1>4 DEF Introspect

LEMMA LateStep ==
  ASSUME GateInv, [Next]_vars
  PROVE  LateStay'
<1> USE DEF GateInv
<1> SUFFICES ASSUME NEW r \in late' PROVE StillRefused(r)'
  BY DEF LateStay
<1>1. r \in Requests
  BY TypeStep DEF TypeOK
<1>2. ASSUME r \in late, pc'[r] # "idle", config' = config, call'[r] = call[r],
             pc'[r] \in {"rate_limit", "auth"} => pc[r] \in {"rate_limit", "auth"}
      PROVE  StillRefused(r)'
  <2>1. CASE pc'[r] \in {"rate_limit", "auth"}
    <3>1. ~Introspect(call[r].token) /\ (call[r].token \in Tokens => signed[call[r].token] # NoJwt)
      BY <1>1, <1>2, <2>1 DEF LateStay, StillRefused, RequestInv, Presented
    <3>2. ~Introspect(call[r].token)'
      <4> DEFINE t == call[r].token
      <4> HIDE DEF t
      <4>1. ~Introspect(t)'
        BY <1>2, <3>1, RefusedStaysRefused DEF t
      <4> QED BY <1>2, <4>1 DEF t, Introspect
    <3> QED BY <1>2, <3>2 DEF Introspect, StillRefused
  <2> QED BY <1>2, <2>1 DEF StillRefused
<1>3. ASSUME NEW s \in Requests, NEW q \in Calls, Arrive(s, q)
      PROVE  StillRefused(r)'
  <2>1. config' = config
    BY <1>3 DEF Arrive, hostVars
  <2>2. CASE r = s /\ ~Introspect(q.token)
    <3>1. pc'[r] = "rate_limit" /\ call'[r] = q /\ UNCHANGED <<config, keyFile, signed, ended>>
      BY <1>1, <1>3, <2>2 DEF Arrive, TypeOK, hostVars, jwtVars
    <3> QED BY <2>2, <3>1 DEF Introspect, StillRefused
  <2>3. CASE r # s
    <3>1. r \in late /\ pc'[r] = pc[r] /\ call'[r] = call[r]
      BY <1>1, <1>3, <2>3 DEF Arrive, TypeOK
    <3> QED BY <1>2, <2>1, <3>1 DEF LateStay, StillRefused
  <2>4. CASE r = s /\ Introspect(q.token)
    BY <1>3, <2>4 DEF Arrive, LateStay, StillRefused
  <2> QED BY <2>2, <2>3, <2>4
<1>4. ASSUME NEW s \in Requests, RateLimit(s) \/ Authenticate(s) \/ CheckPermission(s) \/ Cors(s)
      PROVE  StillRefused(r)'
  BY <1>1, <1>2, <1>4 DEF RateLimit, Authenticate, CheckPermission, Cors, Pass, Refuse, Respond, hostVars,
    TypeOK, LateStay, StillRefused
<1>5. ASSUME NEW s \in Requests, Dispatch(s)
      PROVE  StillRefused(r)'
  BY <1>1, <1>2, <1>5, DispatchAnswers DEF Answer, Respond, hostVars, TypeOK, LateStay, StillRefused
<1>6. ASSUME NEW s \in Requests, Close(s)
      PROVE  StillRefused(r)'
  BY <1>1, <1>2, <1>6 DEF Close, Forget, hostVars, LateStay, StillRefused
<1>7. ASSUME NEW env \in Environments, Restart(env)
      PROVE  FALSE
  BY <1>1, <1>7 DEF Restart, Forget
<1>8. CASE (\E t \in Tokens : End(t)) \/ (\E form \in Forms : ReplaceKeys(form)) \/ UNCHANGED vars
  BY <1>2, <1>8 DEF End, ReplaceKeys, vars, hostVars, LateStay, StillRefused
<1> QED BY <1>3, <1>4, <1>5, <1>6, <1>7, <1>8 DEF Next

-----------------------------------------------------------------------------
(* The theorems about the layers.                                          *)

LEMMA GateInit == Init => GateInv
<1> SUFFICES ASSUME Init PROVE GateInv
  OBVIOUS
<1>1. TypeOK
  BY TypeInit
<1>2. KeysAreOld /\ KeysAreReal
  BY DEF Init, KeysAreOld, KeysAreReal, NoJwt, Jwt, NoKey, Key
<1>3. LateStay
  BY DEF Init, LateStay
<1>4. ASSUME NEW r \in Requests PROVE RequestInv(r)
  BY <1>4 DEF Init, RequestInv, Presented, Identified, Permitted, Explained, PastAuth,
    PastPermissions, Handled
<1> QED BY <1>1, <1>2, <1>3, <1>4 DEF GateInv

LEMMA GateStep == GateInv /\ [Next]_vars => GateInv'
<1> SUFFICES ASSUME GateInv, [Next]_vars PROVE GateInv'
  OBVIOUS
<1>1. TypeOK' /\ KeysAreOld' /\ KeysAreReal'
  BY TypeStep, KeysStep, RealStep DEF GateInv
<1>2. LateStay' /\ \A r \in Requests : RequestInv(r)'
  BY LateStep, RequestStep
<1> QED BY <1>1, <1>2 DEF GateInv

LEMMA GateHolds == Spec => []GateInv
BY GateInit, GateStep, PTL DEF Spec

\* The variables of the middleware stack keep their types.
THEOREM AccessTypes == Spec => []TypeOK
<1>1. GateInv => TypeOK
  BY DEF GateInv
<1> QED BY <1>1, GateHolds, PTL

\* Whatever the requests, tokens and settings: of the requests some row applies
\* to, a handler runs only for a bearer of every permission that applies, and
\* 403 goes only to one who has none of them.
THEOREM PermissionsAlwaysDecide == Spec => []PermissionsDecide
<1>1. GateInv => PermissionsDecide
  BY DEF GateInv, RequestInv, Permitted, PastPermissions, PermissionsDecide
<1> QED BY <1>1, GateHolds, PTL

\* No handler behind authentication is opened by a token that was refused when
\* its request came, and each one finds its caller.
THEOREM LateTokensAlwaysStayOut == Spec => []LateTokensStayOut
<1>1. GateInv => LateTokensStayOut
  BY DEF GateInv, RequestInv, Identified, PastAuth, PermissionPublic, LateTokensStayOut
<1> QED BY <1>1, GateHolds, PTL

\* Whatever environments the process is started in, however often keys are
\* replaced and tokens rotated: an issued token is refused only for one of the
\* causes.
THEOREM RefusalsHaveCauses == Spec => []RefusedForCause
<1>1. GateInv => RefusedForCause
  BY DEF GateInv, RequestInv, Explained, Cause, RefusedForCause
<1> QED BY <1>1, GateHolds, PTL

-----------------------------------------------------------------------------
(* The proxy's configuration.                                              *)

\* A bounded set of numbers has a greatest.
LEMMA Greatest ==
  ASSUME NEW S \in SUBSET Nat, S # {}, NEW n \in Nat, \A k \in S : k <= n
  PROVE  \E m \in S : \A k \in S : k <= m
<1> DEFINE Below == {n - k : k \in S}
<1>1. Below \subseteq Nat /\ Below # {}
  <2>1. \A k \in S : n - k \in Nat
    OBVIOUS
  <2> QED BY <2>1
<1>2. PICK d \in Below : \A e \in Below : ~(<<e, d>> \in OpToRel(<, Nat))
  <2> HIDE DEF Below
  <2> QED BY <1>1, WFMin, NatLessThanWellFounded
<1>3. PICK m \in S : d = n - m
  OBVIOUS
<1>4. ASSUME NEW k \in S PROVE k <= m
  <2>1. ~(n - k < n - m)
    BY <1>1, <1>2, <1>3 DEF OpToRel
  <2> QED BY <2>1
<1> QED BY <1>4

\* A finite set has as many turns as members, and each member one of them.
LEMMA SetToSeqIsBijection ==
  ASSUME NEW S, IsFiniteSet(S)
  PROVE  /\ Cardinality(S) \in Nat /\ SetToSeq(S) \in [1 .. Cardinality(S) -> S]
         /\ \A i, j \in 1 .. Cardinality(S) : SetToSeq(S)[i] = SetToSeq(S)[j] => i = j
         /\ \A x \in S : \E i \in 1 .. Cardinality(S) : SetToSeq(S)[i] = x
<1> DEFINE D == 1 .. Cardinality(S)
           f == SetToSeq(S)
<1>1. Cardinality(S) \in Nat /\ ExistsBijection(D, S)
  BY FS_CardinalityType
<1>2. \E g \in [D -> S] : IsInjective(g)
  BY <1>1 DEF ExistsBijection, Bijection, Injection, IsInjective
<1>3. f \in [D -> S] /\ IsInjective(f)
  BY <1>2 DEF SetToSeq
<1>4. f \in Injection(D, S)
  BY <1>3 DEF Injection, IsInjective
<1>5. IsFiniteSet(D) /\ Cardinality(D) = Cardinality(S)
  BY <1>1, FS_Interval
<1>6. f \in Surjection(D, S)
  <2> HIDE DEF f, D
  <2> QED BY <1>4, <1>5, FS_Injection
<1> QED BY <1>1, <1>3, <1>6 DEF IsInjective, Surjection

LEMMA ListIsFinite ==
  ASSUME NEW list, IsList(list)
  PROVE  IsFiniteSet(ToSet(list)) /\ (list # <<>> => ToSet(list) # {})
<1> DEFINE n == Len(list)
<1>1. n \in Nat /\ list \in [1 .. n -> ToSet(list)]
  BY LenProperties DEF IsList
<1>2. \A x \in ToSet(list) : \E i \in 1 .. n : list[i] = x
  BY <1>1 DEF ToSet
<1>3. ExistsSurjection(1 .. n, ToSet(list))
  BY <1>1, <1>2 DEF ExistsSurjection, Surjection
<1>4. IsFiniteSet(ToSet(list))
  <2> HIDE DEF n
  <2> QED BY <1>1, <1>3, FS_NatSurjection
<1>5. list # <<>> => ToSet(list) # {}
  <2>1. list # <<>> => n \in Nat \ {0}
    BY EmptySeq DEF IsList
  <2>2. list # <<>> => list[1] \in ToSet(list)
    BY <1>1, <2>1
  <2> QED BY <2>2
<1> QED BY <1>4, <1>5

\* A service as a readable file describes it, and as validate lets it through.
WellFormed(s) ==
  /\ IsList(s.routes) /\ \A i \in DOMAIN s.routes : IsList(s.routes[i].prefix)
  /\ None \notin BackendsOf(s) /\ \A b \in BackendsOf(s) : IsList(s.backends[b])
Validated(s) ==
  /\ WellFormed(s) /\ s.default \in BackendsOf(s)
  /\ \A i \in DOMAIN s.routes : s.routes[i].backend \in BackendsOf(s)
  /\ \A b \in BackendsOf(s) : s.backends[b] # <<>>

\* Every URI leads to a backend that is there.
LEMMA BackendIsFound ==
  ASSUME NEW s, Validated(s), NEW uri, IsList(uri)
  PROVE  SelectBackend(s, uri) \in BackendsOf(s)
<1> DEFINE matched == {i \in DOMAIN s.routes : IsPrefix(s.routes[i].prefix, uri)}
           length(i) == Len(s.routes[i].prefix)
           longest == {i \in matched : \A j \in matched : length(j) <= length(i)}
           last == CHOOSE i \in longest : \A j \in longest : j <= i
<1>1. Len(s.routes) \in Nat /\ DOMAIN s.routes = 1 .. Len(s.routes)
  BY LenProperties DEF Validated, WellFormed, IsList
<1>2. matched # {} => last \in DOMAIN s.routes
  <2> SUFFICES ASSUME matched # {} PROVE last \in DOMAIN s.routes
    OBVIOUS
  <2>1. \A i \in DOMAIN s.routes : length(i) \in Nat
    BY LenProperties DEF Validated, WellFormed, IsList
  <2>2. \A i \in matched : length(i) <= Len(uri)
    BY DEF IsPrefix
  <2>3. Len(uri) \in Nat
    BY LenProperties DEF IsList
  <2> DEFINE lengths == {length(i) : i \in matched}
  <2>4. PICK n \in lengths : \A k \in lengths : k <= n
    <3>1. lengths \subseteq Nat /\ lengths # {} /\ \A k \in lengths : k <= Len(uri)
      BY <2>1, <2>2
    <3> HIDE DEF lengths
    <3> QED BY <2>3, <3>1, Greatest
  <2>5. longest # {}
    BY <2>4
  <2>6. longest \subseteq Nat /\ longest \subseteq DOMAIN s.routes /\ \A i \in longest : i <= Len(s.routes)
    BY <1>1
  <2>7. PICK m \in longest : \A j \in longest : j <= m
    <3> HIDE DEF longest
    <3> QED BY <1>1, <2>5, <2>6, Greatest
  <2>8. last \in longest
    <3> HIDE DEF longest
    <3> QED BY <2>7
  <2> QED BY <2>6, <2>8
<1> HIDE DEF last
<1>3. SelectBackend(s, uri) =
        LET name == IF matched = {} THEN s.default ELSE s.routes[last].backend
        IN  IF name \in BackendsOf(s) THEN name ELSE None
  BY DEF SelectBackend, last
<1> HIDE DEF matched
<1> QED BY <1>2, <1>3 DEF Validated

\* Turns go through the upstreams in order.
TurnsList(ups) ==
  /\ Len(ups) \in Nat \ {0} /\ DOMAIN ups = 1 .. Len(ups)
  /\ \A i, j \in 1 .. Len(ups) : ups[i] = ups[j] => i = j

LEMMA UpstreamsAreTurns ==
  ASSUME NEW s, Validated(s), NEW b \in BackendsOf(s)
  PROVE  LET ups == Upstreams(s, b)
         IN  TurnsList(ups) /\ ups # <<>> /\ ToSet(s.backends[b]) = {ups[i] : i \in 1 .. Len(ups)}
<1> DEFINE S == ToSet(s.backends[b])
           ups == Upstreams(s, b)
<1>1. IsFiniteSet(S) /\ S # {}
  BY ListIsFinite DEF Validated, WellFormed
<1>2. Cardinality(S) \in Nat \ {0}
  BY <1>1, FS_EmptySet, FS_CardinalityType
<1>3. /\ ups \in [1 .. Cardinality(S) -> S]
      /\ \A i, j \in 1 .. Cardinality(S) : ups[i] = ups[j] => i = j
      /\ \A x \in S : \E i \in 1 .. Cardinality(S) : ups[i] = x
  <2> HIDE DEF S
  <2> QED BY <1>1, SetToSeqIsBijection DEF Upstreams, S
<1> HIDE DEF S, ups
<1>4. Len(ups) = Cardinality(S)
  BY <1>2, <1>3
<1>5. ups # <<>>
  <2>1. 1 \in DOMAIN ups
    BY <1>2, <1>3
  <2> QED BY <2>1
<1>6. S = {ups[i] : i \in 1 .. Len(ups)}
  BY <1>3, <1>4
<1>7. TurnsList(ups)
  BY <1>2, <1>3, <1>4 DEF TurnsList
<1> QED BY <1>5, <1>6, <1>7 DEF S, ups

-----------------------------------------------------------------------------
(* The proxy's process: it serves from what it validated.                  *)

Underway(q) ==
  q \in [service : Services, client : Clients, uri : Uris, peer : {q.peer}, logged : {q.logged},
         state : {"filtered", "unanswered", "admitted", "refused", "forwarded"}]

ServeInv ==
  /\ ProxyTypeOK
  /\ stage # "down" => settings \in Contents \ {Unreadable} /\ \A n \in Services : Validated(settings[n])
  /\ DOMAIN req = Slots
  /\ \A r \in Slots : req[r] # None => stage = "serving" /\ Underway(req[r])

\* Nothing that serves requests changes.
Elsewhere == UNCHANGED <<stage, settings, limiters, turns, req, admits, given>>

LEMMA ElsewhereKeepsServing ==
  ASSUME ServeInv, Elsewhere, ProxyTypeOK'
  PROVE  ServeInv'
BY DEF ServeInv, Elsewhere, Underway, Services, Validated, WellFormed

LEMMA ProxyTypeStep ==
  ASSUME ServeInv, [ProxyNext]_proxyVars
  PROVE  ProxyTypeOK'
<1> USE ProxyAssumption DEF ServeInv, ProxyTypeOK, Services
<1>1. CASE Load
  BY <1>1 DEF Load, files, watch, time, traffic
<1>2. CASE StartWatcher
  BY <1>2 DEF StartWatcher, files, time, traffic
<1>3. CASE Stop
  BY <1>3 DEF Stop, files, time
<1>4. CASE EditNeighbour
  BY <1>4 DEF EditNeighbour, time, traffic
<1>5. CASE HandleEvent
  BY <1>5 DEF HandleEvent, Notice, files, time, traffic
<1>6. CASE Tick
  BY <1>6 DEF Tick, files, watch, traffic
<1>7. CASE StepBack
  BY <1>7 DEF StepBack, files, watch, traffic
<1>8. ASSUME NEW ok \in BOOLEAN, Serve(ok) PROVE ProxyTypeOK'
  BY <1>8 DEF Serve, files, watch, time, traffic
<1>9. ASSUME NEW ok \in BOOLEAN, WatcherStarts(ok) PROVE ProxyTypeOK'
  BY <1>9 DEF WatcherStarts, files, time, traffic
<1>10. ASSUME NEW new \in Contents, EditFile(new) PROVE ProxyTypeOK'
  BY <1>10 DEF EditFile, time, traffic
<1>11. ASSUME NEW p \in Pems, NEW to \in {"good", "bad", "missing"}, EditPem(p, to) PROVE ProxyTypeOK'
  BY <1>11 DEF EditPem, watch, time, traffic
<1>12. ASSUME NEW r \in Slots, NEW n \in Services, NEW c \in Clients, NEW uri \in Uris, RequestFilter(r, n, c, uri)
       PROVE  ProxyTypeOK'
  BY <1>12 DEF RequestFilter, files, watch, time
<1>13. ASSUME NEW r \in Slots, AskLimiter(r) PROVE ProxyTypeOK'
  <2>1. stage' = "serving" /\ settings' = settings /\ \A n \in Services : DOMAIN limiters'[n] = DOMAIN limiters[n]
    BY <1>13 DEF AskLimiter
  <2> QED BY <1>13, <2>1 DEF AskLimiter, files, watch, time
<1>14. ASSUME NEW r \in Slots, SelectPeer(r) \/ Finish(r) PROVE ProxyTypeOK'
  BY <1>14 DEF SelectPeer, Finish, files, watch, time
<1>15. CASE UNCHANGED proxyVars
  BY <1>15 DEF proxyVars, files, watch, time, traffic
<1> QED BY <1>1, <1>2, <1>3, <1>4, <1>5, <1>6, <1>7, <1>8, <1>9, <1>10, <1>11, <1>12, <1>13, <1>14, <1>15
        DEF ProxyNext

\* A file that passes the checks describes services that can be served.
LEMMA CheckedIsValidated ==
  ASSUME NEW all \in Contents \ {Unreadable}, Validate(all), NEW n \in DOMAIN all
  PROVE  Validated(all[n])
BY NoneAssumption, ContentsAssumption DEF Validate, ServiceIsValid, Validated, WellFormed, BackendsOf

LEMMA ServeInit == ProxyInit => ServeInv
BY ProxyAssumption DEF ProxyInit, ServeInv, ProxyTypeOK, NothingUnderWay, Services

\* What the steps of a request leave of the others.
LEMMA RequestsStayUnderway ==
  ASSUME ServeInv, ProxyTypeOK', stage = "serving", NEW r \in Slots, UNCHANGED <<stage, settings>>,
         NEW q, req' = [req EXCEPT ![r] = q], q # None => Underway(q)
  PROVE  ServeInv'
BY DEF ServeInv, Underway, Services

LEMMA AnsweredStays ==
  ASSUME NEW q, Underway(q), NEW state \in {"filtered", "unanswered", "admitted", "refused", "forwarded"}
  PROVE  Underway([q EXCEPT !.state = state])
BY DEF Underway

\* A request that is let pass finds its backend and an upstream.
LEMMA NothingIsLost ==
  ASSUME ServeInv, NEW r \in Slots, req[r] # None
  PROVE  LET s == settings[req[r].service]
             b == SelectBackend(s, req[r].uri)
         IN  Validated(s) /\ b \in BackendsOf(s) /\ b # None /\ Upstreams(s, b) # <<>>
<1> DEFINE s == settings[req[r].service]
           b == SelectBackend(s, req[r].uri)
<1>1. stage = "serving" /\ req[r].service \in Services /\ req[r].uri \in Uris
  BY DEF ServeInv, Underway
<1>2. Validated(s) /\ IsList(req[r].uri)
  BY <1>1, ContentsAssumption DEF ServeInv
<1> HIDE DEF s
<1>3. b \in BackendsOf(s)
  BY <1>2, BackendIsFound
<1> HIDE DEF b
<1>4. b # None
  BY <1>2, <1>3 DEF Validated, WellFormed
<1>5. Upstreams(s, b) # <<>>
  BY <1>2, <1>3, UpstreamsAreTurns
<1> QED BY <1>2, <1>3, <1>4, <1>5 DEF s, b

\* The request's part of upstream_peer.
LEMMA SelectPeerSelects ==
  ASSUME ServeInv, NEW r \in Slots, SelectPeer(r)
  PROVE  LET n == req[r].service
             b == SelectBackend(settings[n], req[r].uri)
             u == Turn(n, b)
         IN  /\ req' = [req EXCEPT ![r].state = "forwarded", ![r].peer = u]
             /\ given' = [given EXCEPT ![n][b][u] = @ + 1]
             /\ turns' = [turns EXCEPT ![n][b] = @ + 1]
<1> DEFINE n == req[r].service
           b == SelectBackend(settings[n], req[r].uri)
<1>1. req[r] # None
  BY DEF SelectPeer
<1>2. ~(b = None \/ Upstreams(settings[n], b) = <<>>)
  BY <1>1, NothingIsLost
<1> QED BY <1>2 DEF SelectPeer

LEMMA ServeStep ==
  ASSUME ServeInv, [ProxyNext]_proxyVars
  PROVE  ServeInv'
<1>1. ProxyTypeOK'
  BY ProxyTypeStep
<1>2. CASE Elsewhere
  BY <1>1, <1>2, ElsewhereKeepsServing
<1>3. CASE Load
  <2>1. \A r \in Slots : req[r] = None
    BY <1>3 DEF Load, ServeInv
  <2>2. settings' \in Contents \ {Unreadable} /\ \A n \in DOMAIN settings' : Validated(settings'[n])
    BY <1>3, CheckedIsValidated DEF Load, ServeInv, ProxyTypeOK
  <2>3. req' = req
    BY <1>3 DEF Load, traffic
  <2> QED BY <1>1, <2>1, <2>2, <2>3 DEF ServeInv, Services
<1>4. CASE Stop
  BY <1>1, <1>4 DEF Stop, ServeInv
<1>5. ASSUME NEW ok \in BOOLEAN, Serve(ok) PROVE ServeInv'
  <2>1. \A r \in Slots : req[r] = None
    BY <1>5 DEF Serve, ServeInv
  <2>2. req' = req /\ ((stage' = "serving" /\ settings' = settings) \/ stage' = "down")
    BY <1>5 DEF Serve, traffic
  <2>3. stage = "loaded"
    BY <1>5 DEF Serve
  <2> QED BY <1>1, <2>1, <2>2, <2>3 DEF ServeInv, Services
<1>6. ASSUME NEW r \in Slots, NEW n \in Services, NEW c \in Clients, NEW uri \in Uris, RequestFilter(r, n, c, uri)
      PROVE  ServeInv'
  <2> DEFINE b == SelectBackend(settings[n], uri)
             q == [service |-> n, client |-> c, uri |-> uri, peer |-> None,
                   logged |-> IF b = None THEN settings[n].default ELSE b,
                   state |-> IF TrueMeansGoOn THEN "filtered" ELSE "unanswered"]
  <2>1. req' = [req EXCEPT ![r] = q]
    BY <1>6 DEF RequestFilter
  <2>3. Underway(q)
    BY DEF Underway
  <2> HIDE DEF q
  <2>2. stage = "serving" /\ UNCHANGED <<stage, settings>>
    BY <1>6 DEF RequestFilter
  <2> QED BY <1>1, <2>1, <2>2, <2>3, RequestsStayUnderway
<1>7. ASSUME NEW r \in Slots, AskLimiter(r) PROVE ServeInv'
  <2>1. stage = "serving" /\ Underway(req[r])
    BY <1>7 DEF AskLimiter, ServeInv
  <2>2. PICK state \in {"admitted", "refused"} : req' = [req EXCEPT ![r].state = state]
    BY <1>7 DEF AskLimiter
  <2>3. req' = [req EXCEPT ![r] = [req[r] EXCEPT !.state = state]]
    BY <2>2
  <2>4. Underway([req[r] EXCEPT !.state = state])
    BY <2>1, AnsweredStays
  <2>5. UNCHANGED <<stage, settings>>
    BY <1>7 DEF AskLimiter
  <2> QED BY <1>1, <2>1, <2>3, <2>4, <2>5, RequestsStayUnderway
<1>8. ASSUME NEW r \in Slots, SelectPeer(r) PROVE ServeInv'
  <2>1. stage = "serving" /\ Underway(req[r])
    BY <1>8 DEF SelectPeer, ServeInv
  <2> DEFINE u == Turn(req[r].service, SelectBackend(settings[req[r].service], req[r].uri))
  <2>2. req' = [req EXCEPT ![r] = [req[r] EXCEPT !.state = "forwarded", !.peer = u]]
    <3>1. req' = [req EXCEPT ![r].state = "forwarded", ![r].peer = u]
      BY <1>8, SelectPeerSelects
    <3> HIDE DEF u
    <3> QED BY <3>1, <2>1 DEF Underway, ServeInv
  <2> HIDE DEF u
  <2>3. Underway([req[r] EXCEPT !.state = "forwarded", !.peer = u])
    BY <2>1 DEF Underway
  <2>4. UNCHANGED <<stage, settings>>
    BY <1>8 DEF SelectPeer
  <2> QED BY <1>1, <2>1, <2>2, <2>3, <2>4, RequestsStayUnderway
<1>9. ASSUME NEW r \in Slots, Finish(r) PROVE ServeInv'
  <2>1. stage = "serving" /\ req' = [req EXCEPT ![r] = None] /\ UNCHANGED <<stage, settings>>
    BY <1>9 DEF Finish, ServeInv
  <2> QED BY <1>1, <2>1, RequestsStayUnderway
<1>10. CASE \/ StartWatcher \/ EditNeighbour \/ HandleEvent \/ Tick \/ StepBack \/ UNCHANGED proxyVars
            \/ \E ok \in BOOLEAN : WatcherStarts(ok)
            \/ \E new \in Contents : EditFile(new)
            \/ \E p \in Pems, to \in {"good", "bad", "missing"} : EditPem(p, to)
  <2>1. Elsewhere
    BY <1>10 DEF StartWatcher, EditNeighbour, HandleEvent, Tick, StepBack, WatcherStarts, EditFile, EditPem,
      proxyVars, traffic, Elsewhere
  <2> QED BY <1>2, <2>1
<1> QED BY <1>3, <1>4, <1>5, <1>6, <1>7, <1>8, <1>9, <1>10 DEF ProxyNext

LEMMA ServeHolds == ProxySpec => []ServeInv
BY ServeInit, ServeStep, PTL DEF ProxySpec

\* The proxy's variables keep their types.
THEOREM ProxyTypes == ProxySpec => []ProxyTypeOK
<1>1. ServeInv => ProxyTypeOK
  BY DEF ServeInv
<1> QED BY <1>1, ServeHolds, PTL

\* Whatever the configuration file holds, and however it and its keys change
\* while the proxy runs: no request that the limiter lets pass is lost for want
\* of a backend or an upstream.
THEOREM ValidatedIsAlwaysServed == ProxySpec => []ValidatedIsServed
<1>1. ServeInv => ValidatedIsServed
  BY DEF ServeInv, Underway, ValidatedIsServed
<1> QED BY <1>1, ServeHolds, PTL

-----------------------------------------------------------------------------
(* The balancers.                                                          *)

\* The next number's remainder.
LEMMA NextRemainder ==
  ASSUME NEW k \in Nat, NEW n \in Nat \ {0}
  PROVE  /\ k % n \in 0 .. (n - 1)
         /\ (k + 1) % n = IF (k % n) + 1 = n THEN 0 ELSE (k % n) + 1
<1> DEFINE a == k \div n
           r == k % n
           b == (k + 1) \div n
           o == (k + 1) % n
<1>1. a \in Int /\ r \in 0 .. (n - 1) /\ k = n * a + r
  OBVIOUS
<1>2. b \in Int /\ o \in 0 .. (n - 1) /\ k + 1 = n * b + o
  OBVIOUS
<1> HIDE DEF a, r, b, o
<1>3. PICK d \in Int : n * d = 1 + r - o
  <2>1. n * (b - a) = n * b - n * a
    BY <1>1, <1>2
  <2>2. n * a \in Int /\ n * b \in Int
    BY <1>1, <1>2
  <2>3. n * (b - a) = 1 + r - o
    BY <1>1, <1>2, <2>1, <2>2
  <2> QED BY <1>1, <1>2, <2>3
<1>4. (d >= 2 => n * d >= 2 * n) /\ (d <= -1 => n * d <= -n)
  OBVIOUS
<1>5. d \in {0, 1}
  BY <1>1, <1>2, <1>3, <1>4
<1> QED BY <1>1, <1>2, <1>3, <1>5 DEF r, o

\* After k selections those before the next turn were given one more than the
\* others.
EvenShares(k, shares, ups) ==
  /\ k \in Nat /\ DOMAIN shares = {ups[i] : i \in 1 .. Len(ups)}
  /\ \E q \in Nat : \A i \in 1 .. Len(ups) : shares[ups[i]] = IF i <= k % Len(ups) THEN q + 1 ELSE q

LEMMA SharesBegin ==
  ASSUME NEW ups, TurnsList(ups)
  PROVE  EvenShares(0, [u \in {ups[i] : i \in 1 .. Len(ups)} |-> 0], ups)
<1> DEFINE n == Len(ups)
           none == [u \in {ups[i] : i \in 1 .. n} |-> 0]
<1>1. n \in Nat \ {0}
  BY DEF TurnsList
<1>2. 0 % n = 0
  BY <1>1
<1>3. \A i \in 1 .. n : none[ups[i]] = IF i <= 0 THEN 0 + 1 ELSE 0
  BY <1>1
<1> HIDE DEF n, none
<1>4. \A i \in 1 .. n : none[ups[i]] = IF i <= 0 % n THEN 0 + 1 ELSE 0
  BY <1>2, <1>3
<1>5. DOMAIN none = {ups[i] : i \in 1 .. n}
  BY DEF none
<1> QED BY <1>4, <1>5 DEF EvenShares, n, none

LEMMA SharesGoOn ==
  ASSUME NEW ups, TurnsList(ups), NEW k, NEW shares, EvenShares(k, shares, ups)
  PROVE  EvenShares(k + 1, [shares EXCEPT ![ups[(k % Len(ups)) + 1]] = @ + 1], ups)
<1> DEFINE n == Len(ups)
           rest == k % n
           turn == rest + 1
           after == [shares EXCEPT ![ups[turn]] = @ + 1]
<1>0. n \in Nat \ {0} /\ k \in Nat
  BY DEF TurnsList, EvenShares
<1>1. rest \in 0 .. (n - 1) /\ (k + 1) % n = IF rest + 1 = n THEN 0 ELSE rest + 1
  BY <1>0, NextRemainder
<1>2. PICK q \in Nat : \A i \in 1 .. n : shares[ups[i]] = IF i <= rest THEN q + 1 ELSE q
  BY DEF EvenShares
<1> HIDE DEF rest
<1> DEFINE next == (k + 1) % n
<1>3. next = (IF turn = n THEN 0 ELSE turn) /\ turn \in 1 .. n
  BY <1>0, <1>1
<1> HIDE DEF next
<1>4. ASSUME NEW i \in 1 .. n
      PROVE  after[ups[i]] = IF i <= turn THEN q + 1 ELSE q
  <2>1. ups[i] \in DOMAIN shares
    BY DEF EvenShares
  <2>2. CASE i = turn
    <3>1. ups[i] = ups[turn]
      BY <2>2
    <3>2. shares[ups[i]] = q
      BY <1>0, <1>1, <1>2, <2>2
    <3> QED BY <2>1, <2>2, <3>1, <3>2
  <2>3. CASE i # turn
    <3>1. ups[i] # ups[turn]
      BY <1>3, <2>3 DEF TurnsList
    <3>2. shares[ups[i]] = IF i <= turn THEN q + 1 ELSE q
      BY <1>0, <1>1, <1>2, <2>3
    <3> QED BY <2>1, <3>1, <3>2
  <2> QED BY <2>2, <2>3
<1>5. DOMAIN after = {ups[i] : i \in 1 .. n}
  BY DEF EvenShares
<1> HIDE DEF after
<1>6. \E p \in Nat : \A i \in 1 .. n : after[ups[i]] = IF i <= next THEN p + 1 ELSE p
  <2>1. CASE turn = n
    <3>1. \A i \in 1 .. n : after[ups[i]] = q + 1 /\ ~(i <= next)
      BY <1>0, <1>3, <1>4, <2>1
    <3> WITNESS q + 1 \in Nat
    <3> QED BY <3>1
  <2>2. CASE turn # n
    <3>1. next = turn
      BY <1>3, <2>2
    <3> WITNESS q \in Nat
    <3> QED BY <1>4, <3>1
  <2> QED BY <2>1, <2>2
<1>7. EvenShares(k + 1, after, ups)
  <2>1. k + 1 \in Nat
    BY <1>0
  <2> QED BY <1>5, <1>6, <2>1, Zenon DEF EvenShares, next
<1> QED BY <1>7 DEF after, rest

LEMMA SharesDifferByOne ==
  ASSUME NEW ups, TurnsList(ups), NEW k, NEW shares, EvenShares(k, shares, ups),
         NEW u \in DOMAIN shares, NEW v \in DOMAIN shares
  PROVE  shares[u] - shares[v] <= 1
<1>1. PICK q \in Nat : \A i \in 1 .. Len(ups) : shares[ups[i]] \in {q, q + 1}
  BY DEF EvenShares
<1>2. shares[u] \in {q, q + 1} /\ shares[v] \in {q, q + 1}
  BY <1>1 DEF EvenShares
<1> QED BY <1>2

SharesInv ==
  stage = "serving" =>
    /\ DOMAIN turns = Services /\ DOMAIN given = Services
    /\ \A n \in Services :
         /\ DOMAIN turns[n] = BackendsOf(settings[n]) /\ DOMAIN given[n] = BackendsOf(settings[n])
         /\ \A b \in BackendsOf(settings[n]) :
              EvenShares(turns[n][b], given[n][b], Upstreams(settings[n], b))

LEMMA UpstreamsAreAList ==
  ASSUME ServeInv, stage # "down", NEW n \in Services, NEW b \in BackendsOf(settings[n])
  PROVE  LET ups == Upstreams(settings[n], b)
         IN  TurnsList(ups) /\ ToSet(settings[n].backends[b]) = {ups[i] : i \in 1 .. Len(ups)}
BY UpstreamsAreTurns DEF ServeInv

LEMMA SharesStep ==
  ASSUME ServeInv, SharesInv, [ProxyNext]_proxyVars
  PROVE  SharesInv'
<1>1. CASE UNCHANGED <<stage, settings, turns, given>>
  BY <1>1 DEF SharesInv, Services
<1>2. CASE stage' # "serving"
  BY <1>2 DEF SharesInv
<1>3. ASSUME NEW ok \in BOOLEAN, Serve(ok), stage' = "serving" PROVE SharesInv'
  <2>1. /\ settings' = settings /\ stage = "loaded"
        /\ turns' = [n \in Services |-> [b \in BackendsOf(settings[n]) |-> 0]]
        /\ given' = [n \in Services |-> [b \in BackendsOf(settings[n]) |->
                                           [u \in ToSet(settings[n].backends[b]) |-> 0]]]
    BY <1>3 DEF Serve
  <2>2. ASSUME NEW n \in Services, NEW b \in BackendsOf(settings[n])
        PROVE  EvenShares(turns'[n][b], given'[n][b], Upstreams(settings[n], b))
    <3> DEFINE ups == Upstreams(settings[n], b)
    <3>1. TurnsList(ups) /\ ToSet(settings[n].backends[b]) = {ups[i] : i \in 1 .. Len(ups)}
      BY <2>1, UpstreamsAreAList
    <3>2. turns'[n][b] = 0 /\ given'[n][b] = [u \in {ups[i] : i \in 1 .. Len(ups)} |-> 0]
      BY <2>1, <3>1
    <3> HIDE DEF ups
    <3>3. EvenShares(turns'[n][b], given'[n][b], ups)
      BY <3>1, <3>2, SharesBegin
    <3> QED BY <3>3 DEF ups
  <2> QED BY <2>1, <2>2 DEF SharesInv, Services
<1>4. ASSUME NEW r \in Slots, SelectPeer(r) PROVE SharesInv'
  <2> DEFINE m == req[r].service
             c == SelectBackend(settings[m], req[r].uri)
             w == Turn(m, c)
  <2>1. stage = "serving" /\ m \in Services /\ c \in BackendsOf(settings[m])
    BY <1>4, NothingIsLost DEF SelectPeer, ServeInv, Underway
  <2>2. given' = [given EXCEPT ![m][c][w] = @ + 1] /\ turns' = [turns EXCEPT ![m][c] = @ + 1]
    BY <1>4, SelectPeerSelects
  <2>3. UNCHANGED <<stage, settings>>
    BY <1>4 DEF SelectPeer
  <2> HIDE DEF m, c
  <2>4. /\ turns'[m][c] = turns[m][c] + 1
        /\ given'[m][c] = [given[m][c] EXCEPT ![w] = @ + 1]
    BY <2>1, <2>2 DEF SharesInv
  <2>5. /\ DOMAIN turns' = Services /\ DOMAIN given' = Services
        /\ \A n \in Services : DOMAIN turns'[n] = DOMAIN turns[n] /\ DOMAIN given'[n] = DOMAIN given[n]
        /\ \A n \in Services : \A b \in BackendsOf(settings[n]) :
             n # m \/ b # c => turns'[n][b] = turns[n][b] /\ given'[n][b] = given[n][b]
    BY <2>1, <2>2 DEF SharesInv
  <2>6. EvenShares(turns'[m][c], given'[m][c], Upstreams(settings[m], c))
    <3> DEFINE ups == Upstreams(settings[m], c)
    <3>1. TurnsList(ups) /\ EvenShares(turns[m][c], given[m][c], ups)
      BY <2>1, UpstreamsAreAList DEF SharesInv
    <3>2. w = ups[(turns[m][c] % Len(ups)) + 1]
      BY DEF Turn
    <3> HIDE DEF ups, w
    <3>3. EvenShares(turns'[m][c], given'[m][c], ups)
      BY <2>4, <3>1, <3>2, SharesGoOn
    <3> QED BY <3>3 DEF ups
  <2>7. ASSUME NEW n \in Services, NEW b \in BackendsOf(settings[n])
        PROVE  EvenShares(turns'[n][b], given'[n][b], Upstreams(settings[n], b))
    <3>1. CASE n = m /\ b = c
      BY <2>6, <3>1
    <3>2. CASE n # m \/ b # c
      BY <2>1, <2>5, <3>2 DEF SharesInv
    <3> QED BY <3>1, <3>2
  <2> QED BY <2>1, <2>3, <2>5, <2>7 DEF SharesInv, Services
<1>5. CASE Load \/ Stop \/ \E ok \in BOOLEAN : Serve(ok)
  BY <1>2, <1>3, <1>5 DEF Load, Stop
<1>6. CASE ~(Load \/ Stop \/ (\E ok \in BOOLEAN : Serve(ok)) \/ \E r \in Slots : SelectPeer(r))
  BY <1>1, <1>6 DEF ProxyNext, StartWatcher, EditNeighbour, HandleEvent, Tick, StepBack, WatcherStarts, EditFile,
    EditPem, RequestFilter, AskLimiter, Finish, proxyVars, traffic
<1> QED BY <1>4, <1>5, <1>6

\* However many requests run at once, whatever the limiter refuses: no upstream
\* of a backend is given two requests more than another.
THEOREM UpstreamsAlwaysShare == ProxySpec => []UpstreamsShareAlike
<1>1. ProxyInit => SharesInv
  BY DEF ProxyInit, SharesInv
<1>2. ServeInv /\ SharesInv => UpstreamsShareAlike
  BY UpstreamsAreAList, SharesDifferByOne DEF SharesInv, UpstreamsShareAlike
<1> QED BY <1>1, <1>2, SharesStep, ServeHolds, PTL DEF ProxySpec

-----------------------------------------------------------------------------
(* The limiters.                                                           *)

\* Of the requests let pass, those of client c at service n.
Of(hist, n, c) == {i \in DOMAIN hist : hist[i].service = n /\ hist[i].client = c}
Within(hist, n, c, t) == {i \in Of(hist, n, c) : hist[i].at \in t .. (t + Window)}

\* What a client's entry e tells at time now, the clock having been put back by
\* back: its window began with the request after the k-th, at the latest when
\* e says; those let pass since are counted, and those of the window before
\* that are not yet out of sight are no more than the limit.
Epoch(hist, n, c, e, begun, k, now, back) ==
  /\ e \in [count : Nat, reset : Int] /\ e.count <= MaxPerMinute
  /\ begun <= now /\ begun + MaxSlow <= e.reset + back /\ k <= Len(hist)
  /\ \A i \in Of(hist, n, c) : IF i > k THEN hist[i].at >= begun ELSE hist[i].at <= begun
  /\ Cardinality({i \in Of(hist, n, c) : i > k}) <= e.count
  /\ Cardinality({i \in Of(hist, n, c) : i <= k /\ hist[i].at >= begun - Window}) <= MaxPerMinute

Admissions(names, now) == Seq([service : names, client : Clients, at : 0 .. now])

LEMMA SubsetCounts ==
  ASSUME NEW n \in Nat, NEW T \in SUBSET (1 .. n), NEW S \in SUBSET T
  PROVE  IsFiniteSet(S) /\ Cardinality(S) \in Nat /\ Cardinality(T) \in Nat /\ Cardinality(S) <= Cardinality(T)
<1>1. IsFiniteSet(1 .. n)
  BY FS_Interval, 1 \in Int, n \in Int
<1>2. IsFiniteSet(T)
  BY <1>1, FS_Subset
<1>3. IsFiniteSet(S) /\ Cardinality(S) <= Cardinality(T)
  BY <1>2, FS_Subset
<1> QED BY <1>2, <1>3, FS_CardinalityType

LEMMA OfIsIndices ==
  ASSUME NEW names, NEW now \in Nat, NEW hist \in Admissions(names, now), NEW n, NEW c
  PROVE  /\ Len(hist) \in Nat /\ Of(hist, n, c) \subseteq 1 .. Len(hist)
         /\ \A i \in Of(hist, n, c) : hist[i].at \in 0 .. now
<1>1. Len(hist) \in Nat /\ hist \in [1 .. Len(hist) -> [service : names, client : Clients, at : 0 .. now]]
  BY LenProperties DEF Admissions
<1> QED BY <1>1 DEF Of

\* What a request that is let pass adds.
Adds(hist, after, rec, n, c) ==
  /\ Len(after) = Len(hist) + 1
  /\ Of(after, n, c) = IF n = rec.service /\ c = rec.client THEN Of(hist, n, c) \union {Len(hist) + 1} ELSE Of(hist, n, c)
  /\ \A i \in Of(hist, n, c) : after[i] = hist[i]
  /\ after[Len(hist) + 1] = rec

LEMMA OfAppend ==
  ASSUME NEW names, NEW now \in Nat, NEW hist \in Admissions(names, now),
         NEW rec \in [service : names, client : Clients, at : {now}], NEW n, NEW c
  PROVE  Append(hist, rec) \in Admissions(names, now) /\ Adds(hist, Append(hist, rec), rec, n, c)
<1> DEFINE R == [service : names, client : Clients, at : 0 .. now]
           after == Append(hist, rec)
<1>1. rec \in R /\ hist \in Seq(R)
  BY DEF Admissions
<1>2. Len(hist) \in Nat /\ DOMAIN hist = 1 .. Len(hist)
  BY <1>1, LenProperties
<1>3. after \in Seq(R) /\ Len(after) = Len(hist) + 1
      /\ (\A i \in 1 .. Len(hist) : after[i] = hist[i]) /\ after[Len(hist) + 1] = rec
  <2> HIDE DEF R
  <2> QED BY <1>1, AppendProperties
<1>4. DOMAIN after = 1 .. (Len(hist) + 1)
  BY <1>3, LenProperties
<1> HIDE DEF after
<1>5. Of(after, n, c) = IF n = rec.service /\ c = rec.client THEN Of(hist, n, c) \union {Len(hist) + 1} ELSE Of(hist, n, c)
  BY <1>2, <1>3, <1>4 DEF Of
<1>6. \A i \in Of(hist, n, c) : after[i] = hist[i]
  BY <1>2, <1>3 DEF Of
<1>7. after \in Admissions(names, now)
  BY <1>3 DEF Admissions
<1>8. Adds(hist, after, rec, n, c)
  BY <1>3, <1>5, <1>6, Zenon DEF Adds
<1> QED BY <1>7, <1>8 DEF after

\* A client that is new begins a window.
LEMMA FirstEpoch ==
  ASSUME NEW hist, NEW n, NEW c, NEW now \in Nat, NEW back \in 0 .. MaxSlow, Of(hist, n, c) = {}, Len(hist) \in Nat
  PROVE  Epoch(hist, n, c, [count |-> 0, reset |-> MaxSlow + now - back], now, Len(hist), now, back)
<1>1. Cardinality({}) = 0
  BY FS_EmptySet
<1>2. /\ {i \in Of(hist, n, c) : i > Len(hist)} = {}
      /\ {i \in Of(hist, n, c) : i <= Len(hist) /\ hist[i].at >= now - Window} = {}
  OBVIOUS
<1> QED BY <1>1, <1>2, ProxyAssumption DEF Epoch

\* A window that is over gives way to one that begins now: of the requests that
\* passed, only those it counted are still in sight.
LEMMA NextEpoch ==
  ASSUME NEW names, NEW now \in Nat, NEW hist \in Admissions(names, now), NEW n, NEW c, NEW back \in 0 .. MaxSlow,
         NEW e, NEW begun \in Nat, NEW k \in Nat, Epoch(hist, n, c, e, begun, k, now, back),
         (MaxSlow + now - back) - e.reset > Window
  PROVE  Epoch(hist, n, c, [count |-> 0, reset |-> MaxSlow + now - back], now, Len(hist), now, back)
<1> USE ProxyAssumption
<1>1. Len(hist) \in Nat /\ Of(hist, n, c) \subseteq 1 .. Len(hist) /\ \A i \in Of(hist, n, c) : hist[i].at \in 0 .. now
  BY OfIsIndices
<1>2. begun < now - Window
  BY DEF Epoch
<1> DEFINE Counted == {i \in Of(hist, n, c) : i > k}
           InSight == {i \in Of(hist, n, c) : i <= Len(hist) /\ hist[i].at >= now - Window}
<1>3. InSight \subseteq Counted
  <2> SUFFICES ASSUME NEW i \in Of(hist, n, c), hist[i].at >= now - Window PROVE i > k
    OBVIOUS
  <2>1. i \in 1 .. Len(hist) /\ hist[i].at \in 0 .. now
    BY <1>1
  <2>2. ~(hist[i].at <= begun)
    <3> DEFINE a == hist[i].at
    <3>1. a \in 0 .. now /\ a >= now - Window
      BY <2>1
    <3> HIDE DEF a
    <3>2. ~(a <= begun)
      BY <1>2, <3>1
    <3> QED BY <3>2 DEF a
  <2> QED BY <2>1, <2>2 DEF Epoch
<1>4. Cardinality(InSight) <= MaxPerMinute
  <2>1. Counted \subseteq 1 .. Len(hist) /\ Cardinality(Counted) <= e.count /\ e.count \in Nat /\ e.count <= MaxPerMinute
    BY <1>1 DEF Epoch
  <2> HIDE DEF Counted, InSight
  <2>2. Cardinality(InSight) \in Nat /\ Cardinality(Counted) \in Nat /\ Cardinality(InSight) <= Cardinality(Counted)
    BY <1>1, <1>3, <2>1, SubsetCounts
  <2> QED BY <2>1, <2>2
<1>5. {i \in Of(hist, n, c) : i > Len(hist)} = {} /\ Cardinality({}) = 0
  BY <1>1, FS_EmptySet
<1>6. \A i \in Of(hist, n, c) : i <= Len(hist) /\ hist[i].at <= now
  BY <1>1
<1>7. /\ Cardinality({i \in Of(hist, n, c) : i > Len(hist)}) = 0
      /\ \A i \in Of(hist, n, c) : IF i > Len(hist) THEN hist[i].at >= now ELSE hist[i].at <= now
  BY <1>1, <1>5, <1>6
<1>8. /\ [count |-> 0, reset |-> MaxSlow + now - back] \in [count : Nat, reset : Int]
      /\ now + MaxSlow <= (MaxSlow + now - back) + back
  OBVIOUS
<1> QED BY <1>1, <1>4, <1>7, <1>8 DEF Epoch

\* A request that is let pass is counted.
LEMMA EpochCounts ==
  ASSUME NEW names, NEW now \in Nat, NEW hist \in Admissions(names, now), NEW n \in names, NEW c \in Clients,
         NEW back \in 0 .. MaxSlow, NEW e, NEW begun \in Nat, NEW k \in Nat,
         Epoch(hist, n, c, e, begun, k, now, back), e.count < MaxPerMinute,
         NEW rec \in [service : {n}, client : {c}, at : {now}]
  PROVE  Epoch(Append(hist, rec), n, c, [e EXCEPT !.count = @ + 1], begun, k, now, back)
<1> USE ProxyAssumption
<1> DEFINE last == Len(hist) + 1
           after == Append(hist, rec)
<1>1. Len(hist) \in Nat /\ Of(hist, n, c) \subseteq 1 .. Len(hist) /\ \A i \in Of(hist, n, c) : hist[i].at \in 0 .. now
  BY OfIsIndices
<1>2. /\ Len(after) = last /\ Of(after, n, c) = Of(hist, n, c) \union {last}
      /\ \A i \in Of(hist, n, c) : after[i] = hist[i]
      /\ after[last].at = now
  <2>1. rec \in [service : names, client : Clients, at : {now}]
    OBVIOUS
  <2>2. Adds(hist, after, rec, n, c)
    BY <2>1, OfAppend
  <2> QED BY <2>2 DEF Adds
<1> HIDE DEF after
<1>3. k <= Len(hist) /\ begun <= now
  BY DEF Epoch
<1>4. \A i \in Of(after, n, c) : IF i > k THEN after[i].at >= begun ELSE after[i].at <= begun
  <2>1. \A i \in Of(hist, n, c) : IF i > k THEN after[i].at >= begun ELSE after[i].at <= begun
    BY <1>2 DEF Epoch
  <2>2. last > k /\ after[last].at >= begun
    BY <1>1, <1>2, <1>3
  <2> QED BY <1>2, <2>1, <2>2
<1> DEFINE Old == {i \in Of(hist, n, c) : i > k}
<1>5. Cardinality({i \in Of(after, n, c) : i > k}) <= e.count + 1
  <2>1. {i \in Of(after, n, c) : i > k} = Old \union {last}
    BY <1>1, <1>2, <1>3
  <2>2. Old \subseteq 1 .. Len(hist) /\ Cardinality(Old) <= e.count /\ e.count \in Nat
    BY <1>1 DEF Epoch
  <2> HIDE DEF Old
  <2>3. IsFiniteSet(Old) /\ Cardinality(Old) \in Nat
    BY <1>1, <2>2, SubsetCounts
  <2>4. Cardinality(Old \union {last}) = IF last \in Old THEN Cardinality(Old) ELSE Cardinality(Old) + 1
    BY <2>3, FS_AddElement
  <2>5. Cardinality(Old \union {last}) <= e.count + 1
    BY <2>2, <2>3, <2>4
  <2> QED BY <2>1, <2>5
<1>6. {i \in Of(after, n, c) : i <= k /\ after[i].at >= begun - Window}
        = {i \in Of(hist, n, c) : i <= k /\ hist[i].at >= begun - Window}
  BY <1>1, <1>2, <1>3
<1>7. e \in [count : Nat, reset : Int]
  BY DEF Epoch
<1>8. [e EXCEPT !.count = @ + 1] = [count |-> e.count + 1, reset |-> e.reset]
  BY <1>7
<1>9. e.count \in Nat /\ e.reset \in Int
  BY <1>7
<1>10. k <= Len(after) /\ begun + MaxSlow <= e.reset + back
  BY <1>1, <1>2, <1>3 DEF Epoch
<1>11. Cardinality({i \in Of(after, n, c) : i <= k /\ after[i].at >= begun - Window}) <= MaxPerMinute
  BY <1>6 DEF Epoch
<1>12. Epoch(after, n, c, [count |-> e.count + 1, reset |-> e.reset], begun, k, now, back)
  BY <1>3, <1>4, <1>5, <1>9, <1>10, <1>11 DEF Epoch
<1> QED BY <1>8, <1>12 DEF after

\* Within a window's length that reaches the present there are the requests of
\* at most two windows.
LEMMA TwoEpochs ==
  ASSUME NEW names, NEW now \in Nat, NEW hist \in Admissions(names, now), NEW n, NEW c, NEW back \in 0 .. MaxSlow,
         NEW e, NEW begun \in Nat, NEW k \in Nat, Epoch(hist, n, c, e, begun, k, now, back),
         NEW t \in Nat, t + Window >= begun
  PROVE  Cardinality(Within(hist, n, c, t)) <= 2 * MaxPerMinute
<1> USE ProxyAssumption
<1>1. Len(hist) \in Nat /\ Of(hist, n, c) \subseteq 1 .. Len(hist) /\ \A i \in Of(hist, n, c) : hist[i].at \in 0 .. now
  BY OfIsIndices
<1> DEFINE New == {i \in Of(hist, n, c) : i > k}
           Old == {i \in Of(hist, n, c) : i <= k /\ hist[i].at >= begun - Window}
<1>2. Within(hist, n, c, t) \subseteq New \union Old
  BY <1>1 DEF Within
<1>3. New \subseteq 1 .. Len(hist) /\ Old \subseteq 1 .. Len(hist)
  BY <1>1
<1>4. Cardinality(New) <= MaxPerMinute /\ Cardinality(Old) <= MaxPerMinute
  <2>1. Cardinality(New) \in Nat
    <3> HIDE DEF New
    <3> QED BY <1>1, <1>3, SubsetCounts
  <2> QED BY <2>1 DEF Epoch
<1> HIDE DEF New, Old
<1>5. IsFiniteSet(New) /\ IsFiniteSet(Old) /\ Cardinality(New) \in Nat /\ Cardinality(Old) \in Nat
  BY <1>1, <1>3, SubsetCounts
<1>6. Cardinality(New \union Old) <= 2 * MaxPerMinute /\ Cardinality(New \union Old) \in Nat
  <2>1. Cardinality(New \union Old) = Cardinality(New) + Cardinality(Old) - Cardinality(New \intersect Old)
    BY <1>5, FS_Union
  <2>2. Cardinality(New \intersect Old) \in Nat
    BY <1>5, FS_Intersection, FS_CardinalityType
  <2>3. Cardinality(New \union Old) \in Nat
    BY <1>5, FS_Union, FS_CardinalityType
  <2> QED BY <1>4, <1>5, <2>1, <2>2, <2>3
<1>7. Cardinality(Within(hist, n, c, t)) \in Nat /\ Cardinality(Within(hist, n, c, t)) <= Cardinality(New \union Old)
  BY <1>1, <1>2, <1>3, SubsetCounts
<1> QED BY <1>6, <1>7
\* Entry e of the client's keeps track of what passed.
Tracks(hist, n, c, e, now, back) ==
  \E begun \in 0 .. now, k \in 0 .. Len(hist) : Epoch(hist, n, c, e, begun, k, now, back)

InLimit(hist, n, c) == \A t \in 0 .. MaxTime : Cardinality(Within(hist, n, c, t)) <= 2 * MaxPerMinute

LEMMA TimeGoesOn ==
  ASSUME NEW names, NEW now \in Nat, NEW later \in Nat, now <= later, NEW hist \in Admissions(names, now),
         NEW back \in 0 .. MaxSlow, NEW further \in 0 .. MaxSlow, back <= further
  PROVE  /\ hist \in Admissions(names, later)
         /\ \A n, c, e : Tracks(hist, n, c, e, now, back) => Tracks(hist, n, c, e, later, further)
<1> USE ProxyAssumption
<1> DEFINE R == [service : names, client : Clients, at : 0 .. now]
           T == [service : names, client : Clients, at : 0 .. later]
<1>1. hist \in Admissions(names, later)
  <2>1. hist \in Seq(R) /\ R \subseteq T
    BY DEF Admissions
  <2> HIDE DEF R, T
  <2>2. hist \in Seq(T)
    BY <2>1
  <2> QED BY <2>2 DEF T, Admissions
<1>2. ASSUME NEW n, NEW c, NEW e, Tracks(hist, n, c, e, now, back) PROVE Tracks(hist, n, c, e, later, further)
  <2>1. PICK begun \in 0 .. now, k \in 0 .. Len(hist) : Epoch(hist, n, c, e, begun, k, now, back)
    BY <1>2 DEF Tracks
  <2>2. e.reset \in Int /\ begun \in 0 .. later
    BY <2>1 DEF Epoch
  <2>3. begun <= later /\ begun + MaxSlow <= e.reset + further
    BY <2>1, <2>2 DEF Epoch
  <2>4. Epoch(hist, n, c, e, begun, k, later, further)
    BY <2>1, <2>3 DEF Epoch
  <2> QED BY <2>2, <2>4 DEF Tracks
<1> QED BY <1>1, <1>2

\* What is let pass of another client, or at another service, changes nothing.
LEMMA OthersStay ==
  ASSUME NEW names, NEW now \in Nat, NEW hist \in Admissions(names, now),
         NEW rec \in [service : names, client : Clients, at : {now}], NEW n, NEW c, ~(n = rec.service /\ c = rec.client)
  PROVE  /\ Of(Append(hist, rec), n, c) = Of(hist, n, c)
         /\ \A e, back : Tracks(hist, n, c, e, now, back) => Tracks(Append(hist, rec), n, c, e, now, back)
         /\ InLimit(hist, n, c) => InLimit(Append(hist, rec), n, c)
<1> DEFINE after == Append(hist, rec)
<1>1. Adds(hist, after, rec, n, c)
  BY OfAppend
<1> HIDE DEF after
<1>2. /\ Len(after) = Len(hist) + 1 /\ Of(after, n, c) = Of(hist, n, c)
      /\ \A i \in Of(hist, n, c) : after[i] = hist[i]
  BY <1>1 DEF Adds
<1>3. Len(hist) \in Nat
  BY OfIsIndices
<1>4. ASSUME NEW e, NEW back, Tracks(hist, n, c, e, now, back) PROVE Tracks(after, n, c, e, now, back)
  <2>1. PICK begun \in 0 .. now, k \in 0 .. Len(hist) : Epoch(hist, n, c, e, begun, k, now, back)
    BY <1>4 DEF Tracks
  <2>2. k \in 0 .. Len(after) /\ k <= Len(after)
    BY <1>2, <1>3
  <2>3. /\ {i \in Of(after, n, c) : i > k} = {i \in Of(hist, n, c) : i > k}
        /\ {i \in Of(after, n, c) : i <= k /\ after[i].at >= begun - Window}
             = {i \in Of(hist, n, c) : i <= k /\ hist[i].at >= begun - Window}
    BY <1>2
  <2>4. Epoch(after, n, c, e, begun, k, now, back)
    BY <1>2, <2>1, <2>2, <2>3 DEF Epoch
  <2> QED BY <2>2, <2>4 DEF Tracks
<1>5. \A t : Within(after, n, c, t) = Within(hist, n, c, t)
  BY <1>2 DEF Within
<1> QED BY <1>2, <1>4, <1>5 DEF after, InLimit

\* A client's entry, made if there is none.
LEMMA EntryTracks ==
  ASSUME NEW names, NEW now \in Nat, NEW hist \in Admissions(names, now), NEW n, NEW c, NEW back \in 0 .. MaxSlow,
         NEW e, IF e = None THEN Of(hist, n, c) = {} ELSE Tracks(hist, n, c, e, now, back)
  PROVE  Tracks(hist, n, c, IF e = None THEN [count |-> 0, reset |-> MaxSlow + now - back] ELSE e, now, back)
<1>1. Len(hist) \in Nat
  BY OfIsIndices
<1>2. CASE e = None
  <2>1. Epoch(hist, n, c, [count |-> 0, reset |-> MaxSlow + now - back], now, Len(hist), now, back)
    BY <1>1, <1>2, FirstEpoch
  <2>2. now \in 0 .. now /\ Len(hist) \in 0 .. Len(hist)
    BY <1>1
  <2> QED BY <1>2, <2>1, <2>2 DEF Tracks
<1>3. CASE e # None
  BY <1>3
<1> QED BY <1>2, <1>3

\* Counting one more leaves the window as it is.
LEMMA OneMore ==
  ASSUME NEW x \in [count : Nat, reset : Int]
  PROVE  /\ [x EXCEPT !.count = @ + 1] = [count |-> x.count + 1, reset |-> x.reset]
         /\ x.count + 1 \in Nat /\ x.reset \in Int
<1>1. x = [count |-> x.count, reset |-> x.reset] /\ x.count \in Nat /\ x.reset \in Int
  OBVIOUS
<1> QED BY <1>1

\* The limiter's answer: what passes is counted, and no window's length sees
\* more than twice the limit.
LEMMA CheckTracks ==
  ASSUME NEW names, NEW now \in Nat, NEW hist \in Admissions(names, now), NEW n \in names, NEW c \in Clients,
         NEW back \in 0 .. MaxSlow, NEW e, Tracks(hist, n, c, e, now, back), InLimit(hist, n, c),
         NEW rec \in [service : {n}, client : {c}, at : {now}],
         NEW answer, answer = Check(e, MaxSlow + now - back)
  PROVE  /\ answer.entry \in [count : Nat, reset : Int]
         /\ answer.pass \in BOOLEAN
         /\ answer.pass => /\ Tracks(Append(hist, rec), n, c, answer.entry, now, back)
                           /\ InLimit(Append(hist, rec), n, c)
         /\ ~answer.pass => Tracks(hist, n, c, answer.entry, now, back)
<1> USE ProxyAssumption
<1> DEFINE wall == MaxSlow + now - back
           next == IF wall - e.reset > Window THEN [count |-> 0, reset |-> wall] ELSE e
           after == Append(hist, rec)
<1>1. PICK begun \in 0 .. now, k \in 0 .. Len(hist) : Epoch(hist, n, c, e, begun, k, now, back)
  BY DEF Tracks
<1>2. Len(hist) \in Nat
  BY OfIsIndices
<1>3. Tracks(hist, n, c, next, now, back)
  <2>1. CASE wall - e.reset > Window
    <3>1. begun \in Nat /\ k \in Nat
      BY <1>1, <1>2
    <3>2. Epoch(hist, n, c, [count |-> 0, reset |-> wall], now, Len(hist), now, back)
      BY <1>1, <2>1, <3>1, NextEpoch
    <3>3. now \in 0 .. now /\ Len(hist) \in 0 .. Len(hist)
      BY <1>2
    <3> QED BY <2>1, <3>2, <3>3 DEF Tracks
  <2>2. CASE ~(wall - e.reset > Window)
    BY <1>1, <2>2 DEF Tracks
  <2> QED BY <2>1, <2>2
<1> HIDE DEF next
<1>4. PICK began \in 0 .. now, m \in 0 .. Len(hist) : Epoch(hist, n, c, next, began, m, now, back)
  BY <1>3 DEF Tracks
<1>5. next \in [count : Nat, reset : Int]
  BY <1>4 DEF Epoch
<1>6. answer = [entry |-> IF next.count < MaxPerMinute THEN [next EXCEPT !.count = @ + 1] ELSE next,
                pass |-> next.count < MaxPerMinute]
  BY DEF Check, next
<1>7. answer.entry \in [count : Nat, reset : Int] /\ answer.pass \in BOOLEAN
  <2>1. [next EXCEPT !.count = @ + 1] \in [count : Nat, reset : Int]
    <3>1. [next EXCEPT !.count = @ + 1] = [count |-> next.count + 1, reset |-> next.reset]
      BY <1>5, OneMore
    <3>2. next.count + 1 \in Nat /\ next.reset \in Int
      BY <1>5, OneMore
    <3> QED BY <3>1, <3>2
  <2>2. answer.entry = (IF next.count < MaxPerMinute THEN [next EXCEPT !.count = @ + 1] ELSE next)
        /\ answer.pass = (next.count < MaxPerMinute)
    BY <1>6
  <2>3. answer.pass \in BOOLEAN
    <3>1. (next.count < MaxPerMinute) \in BOOLEAN
      OBVIOUS
    <3> QED BY <2>2, <3>1, Zenon
  <2>4. answer.entry \in [count : Nat, reset : Int]
    BY <1>5, <2>1, <2>2, Zenon
  <2> QED BY <2>3, <2>4
<1>8. CASE next.count < MaxPerMinute
  <2>1. Epoch(after, n, c, [next EXCEPT !.count = @ + 1], began, m, now, back)
    <3>1. began \in Nat /\ m \in Nat
      BY <1>2, <1>4
    <3> QED BY <1>4, <1>8, <3>1, EpochCounts
  <2>2. rec \in [service : names, client : Clients, at : {now}]
    OBVIOUS
  <2>3. after \in Admissions(names, now) /\ Adds(hist, after, rec, n, c)
    BY <2>2, OfAppend
  <2> HIDE DEF after
  <2>4. Len(after) = Len(hist) + 1
    BY <2>3 DEF Adds
  <2>5. Tracks(after, n, c, [next EXCEPT !.count = @ + 1], now, back)
    BY <1>2, <2>1, <2>4 DEF Tracks
  <2>6. ASSUME NEW t \in 0 .. MaxTime PROVE Cardinality(Within(after, n, c, t)) <= 2 * MaxPerMinute
    <3>1. CASE t + Window >= began
      <4>1. began \in Nat /\ m \in Nat /\ t \in Nat
        BY <1>2, <1>4
      <4> QED BY <2>1, <2>3, <3>1, <4>1, TwoEpochs
    <3>2. CASE t + Window < began
      <4>1. /\ Of(after, n, c) = Of(hist, n, c) \union {Len(hist) + 1}
            /\ \A i \in Of(hist, n, c) : after[i] = hist[i]
            /\ after[Len(hist) + 1].at = now
        BY <2>3 DEF Adds
      <4>2. now \notin t .. (t + Window)
        BY <3>2, <1>4
      <4>3. Within(after, n, c, t) = Within(hist, n, c, t)
        BY <4>1, <4>2 DEF Within
      <4> QED BY <4>3 DEF InLimit
    <3> QED BY <1>4, <3>1, <3>2
  <2>7. answer.pass /\ answer.entry = [next EXCEPT !.count = @ + 1]
    <3>1. /\ answer.entry = (IF next.count < MaxPerMinute THEN [next EXCEPT !.count = @ + 1] ELSE next)
          /\ answer.pass = (next.count < MaxPerMinute)
      BY <1>6
    <3> QED BY <1>8, <3>1
  <2> QED BY <1>7, <2>5, <2>6, <2>7 DEF InLimit, after
<1>9. CASE ~(next.count < MaxPerMinute)
  BY <1>3, <1>6, <1>7, <1>9
<1> QED BY <1>8, <1>9
\* Every client's entry keeps track of what passed since it was made.
LimiterInv ==
  /\ stage # "serving" => admits = <<>>
  /\ stage = "serving" =>
       /\ admits \in Admissions(Services, clock)
       /\ limiters \in [Services -> [Clients -> {None} \union [count : Nat, reset : Int]]]
       /\ \A n \in Services, c \in Clients :
            /\ IF limiters[n][c] = None THEN Of(admits, n, c) = {}
               ELSE Tracks(admits, n, c, limiters[n][c], clock, slow)
            /\ InLimit(admits, n, c)
\* Time goes on, and what does not serve begins empty.
LEMMA LimiterQuiet ==
  ASSUME ServeInv, ServeInv', LimiterInv, UNCHANGED <<limiters, admits>>, stage' = "serving" <=> stage = "serving",
         stage = "serving" => settings' = settings, clock <= clock', slow <= slow'
  PROVE  LimiterInv'
<1>1. CASE stage # "serving"
  BY <1>1 DEF LimiterInv
<1>2. CASE stage = "serving"
  <2>1. /\ clock \in Nat /\ clock' \in Nat /\ slow \in 0 .. MaxSlow /\ slow' \in 0 .. MaxSlow
        /\ Services' = Services
    BY <1>2, ProxyAssumption DEF ServeInv, ProxyTypeOK, Services
  <2>2. admits \in Admissions(Services, clock)
    BY <1>2 DEF LimiterInv
  <2>3. /\ admits \in Admissions(Services, clock')
        /\ \A n, c, e : Tracks(admits, n, c, e, clock, slow) => Tracks(admits, n, c, e, clock', slow')
    BY <2>1, <2>2, TimeGoesOn
  <2>4. /\ limiters \in [Services -> [Clients -> {None} \union [count : Nat, reset : Int]]]
        /\ \A n \in Services, c \in Clients :
             /\ IF limiters[n][c] = None THEN Of(admits, n, c) = {}
                ELSE Tracks(admits, n, c, limiters[n][c], clock', slow')
             /\ InLimit(admits, n, c)
    BY <1>2, <2>3 DEF LimiterInv
  <2> HIDE DEF Services
  <2>5. admits' \in Admissions(Services', clock')
    BY <2>1, <2>3
  <2>6. limiters' \in [Services' -> [Clients -> {None} \union [count : Nat, reset : Int]]]
    BY <2>1, <2>4
  <2>7. ASSUME NEW n \in Services', NEW c \in Clients
        PROVE  /\ IF limiters'[n][c] = None THEN Of(admits', n, c) = {}
                  ELSE Tracks(admits', n, c, limiters'[n][c], clock', slow')
               /\ InLimit(admits', n, c)
    BY <2>1, <2>4, Zenon
  <2> QED BY <1>2, <2>5, <2>6, <2>7 DEF LimiterInv
<1> QED BY <1>1, <1>2

\* When serving begins nothing has passed.
LEMMA LimiterServes ==
  ASSUME ServeInv, ServeInv', LimiterInv, NEW ok \in BOOLEAN, Serve(ok)
  PROVE  LimiterInv'
<1>1. CASE stage' # "serving"
  <2>1. admits' = <<>>
    BY <1>1 DEF Serve, LimiterInv, traffic
  <2> QED BY <1>1, <2>1 DEF LimiterInv
<1>2. CASE stage' = "serving"
  <2>1. settings' = settings /\ limiters' = [n \in Services |-> [c \in Clients |-> None]] /\ admits' = <<>>
    BY <1>2 DEF Serve
  <2>2. Services' = Services /\ clock' \in Nat
    BY <2>1, ProxyAssumption DEF Services, ServeInv, ProxyTypeOK
  <2>3. \A n, c : Of(<<>>, n, c) = {}
    BY DEF Of
  <2>4. \A n, c : InLimit(<<>>, n, c)
    <3>1. \A n, c, t : Within(<<>>, n, c, t) = {}
      BY <2>3 DEF Within
    <3>2. Cardinality({}) = 0 /\ 0 <= 2 * MaxPerMinute
      BY FS_EmptySet, ProxyAssumption
    <3>3. \A n, c, t : Cardinality(Within(<<>>, n, c, t)) <= 2 * MaxPerMinute
      BY <3>1, <3>2
    <3> QED BY <3>3 DEF InLimit
  <2>5. admits' \in Admissions(Services', clock')
    BY <2>1 DEF Admissions
  <2> HIDE DEF Services
  <2>6. limiters' \in [Services' -> [Clients -> {None} \union [count : Nat, reset : Int]]]
    BY <2>1, <2>2
  <2>7. \A n \in Services', c \in Clients : limiters'[n][c] = None
    BY <2>1, <2>2
  <2> QED BY <2>1, <2>3, <2>4, <2>5, <2>6, <2>7 DEF LimiterInv
<1> QED BY <1>1, <1>2

LEMMA LimiterAnswers ==
  ASSUME ServeInv, ServeInv', LimiterInv, NEW r \in Slots, AskLimiter(r)
  PROVE  LimiterInv'
<1> DEFINE q == req[r]
           N == q.service
           d == q.client
           e == EntryOf(limiters[N], d)
           answer == Check(e, MaxSlow + clock - slow)
           rec == [service |-> N, client |-> d, at |-> clock]
<1>1. /\ req[r] # None /\ UNCHANGED <<stage, settings, clock, slow>>
      /\ limiters' = [limiters EXCEPT ![N][d] = answer.entry]
      /\ admits' = IF answer.pass THEN Append(admits, rec) ELSE admits
  BY DEF AskLimiter, Wall, time
<1>2. stage = "serving" /\ N \in Services /\ d \in Clients
  BY <1>1 DEF ServeInv, Underway
<1>3. /\ clock \in Nat /\ slow \in 0 .. MaxSlow /\ Services' = Services
  BY <1>1, ProxyAssumption DEF ServeInv, ProxyTypeOK, Services
<1>4. /\ admits \in Admissions(Services, clock)
      /\ limiters \in [Services -> [Clients -> {None} \union [count : Nat, reset : Int]]]
      /\ \A n \in Services, c \in Clients :
           /\ IF limiters[n][c] = None THEN Of(admits, n, c) = {}
              ELSE Tracks(admits, n, c, limiters[n][c], clock, slow)
           /\ InLimit(admits, n, c)
  BY <1>2 DEF LimiterInv
<1>5. rec \in [service : {N}, client : {d}, at : {clock}] /\ rec \in [service : Services, client : Clients, at : {clock}]
      /\ rec.service = N /\ rec.client = d
  BY <1>2
<1> HIDE DEF q, N, d, rec, Services
<1>6. e = IF limiters[N][d] = None THEN [count |-> 0, reset |-> MaxSlow + clock - slow] ELSE limiters[N][d]
  BY DEF EntryOf, Wall
<1> HIDE DEF e, answer
<1>7. Tracks(admits, N, d, e, clock, slow)
  <2>1. IF limiters[N][d] = None THEN Of(admits, N, d) = {} ELSE Tracks(admits, N, d, limiters[N][d], clock, slow)
    BY <1>2, <1>4
  <2> QED BY <1>3, <1>4, <1>6, <2>1, EntryTracks
<1>8. /\ answer.entry \in [count : Nat, reset : Int] /\ answer.pass \in BOOLEAN
      /\ answer.pass => Tracks(Append(admits, rec), N, d, answer.entry, clock, slow)
                        /\ InLimit(Append(admits, rec), N, d)
      /\ ~answer.pass => Tracks(admits, N, d, answer.entry, clock, slow)
  <2>1. answer = Check(e, MaxSlow + clock - slow) /\ InLimit(admits, N, d)
    BY <1>2, <1>4 DEF answer
  <2> QED BY <1>2, <1>3, <1>4, <1>5, <1>7, <2>1, CheckTracks
<1>9. answer.entry # None
  BY <1>8, NoneAssumption
<1>10. admits' \in Admissions(Services, clock)
  BY <1>1, <1>3, <1>4, <1>5, <1>8, OfAppend
<1>11. /\ limiters' \in [Services -> [Clients -> {None} \union [count : Nat, reset : Int]]]
       /\ limiters'[N][d] = answer.entry
       /\ \A n \in Services, c \in Clients : ~(n = N /\ c = d) => limiters'[n][c] = limiters[n][c]
  BY <1>1, <1>2, <1>4, <1>8
<1>12. Tracks(admits', N, d, limiters'[N][d], clock, slow) /\ InLimit(admits', N, d)
  BY <1>1, <1>2, <1>4, <1>8, <1>11
<1>13. ASSUME NEW n \in Services, NEW c \in Clients, ~(n = N /\ c = d)
       PROVE  /\ IF limiters'[n][c] = None THEN Of(admits', n, c) = {}
                 ELSE Tracks(admits', n, c, limiters'[n][c], clock, slow)
              /\ InLimit(admits', n, c)
  <2>1. /\ IF limiters[n][c] = None THEN Of(admits, n, c) = {}
           ELSE Tracks(admits, n, c, limiters[n][c], clock, slow)
        /\ InLimit(admits, n, c) /\ limiters'[n][c] = limiters[n][c]
    BY <1>4, <1>11, <1>13
  <2>2. /\ Of(Append(admits, rec), n, c) = Of(admits, n, c)
        /\ \A f, back : Tracks(admits, n, c, f, clock, back) => Tracks(Append(admits, rec), n, c, f, clock, back)
        /\ InLimit(admits, n, c) => InLimit(Append(admits, rec), n, c)
    BY <1>3, <1>4, <1>5, <1>13, OthersStay
  <2>3. CASE answer.pass
    BY <1>1, <2>1, <2>2, <2>3
  <2>4. CASE ~answer.pass
    BY <1>1, <2>1, <2>4
  <2> QED BY <2>3, <2>4
<1>14. \A n \in Services', c \in Clients :
         /\ IF limiters'[n][c] = None THEN Of(admits', n, c) = {}
            ELSE Tracks(admits', n, c, limiters'[n][c], clock', slow')
         /\ InLimit(admits', n, c)
  BY <1>1, <1>3, <1>9, <1>11, <1>12, <1>13
<1> QED BY <1>1, <1>2, <1>3, <1>10, <1>11, <1>14 DEF LimiterInv

LEMMA LimiterStep ==
  ASSUME ServeInv, ServeInv', LimiterInv, [ProxyNext]_proxyVars
  PROVE  LimiterInv'
<1>1. clock \in Nat /\ slow \in Nat
  BY ProxyAssumption DEF ServeInv, ProxyTypeOK
<1>2. CASE Load
  BY <1>1, <1>2, LimiterQuiet DEF Load, time, traffic
<1>3. CASE StartWatcher \/ EditNeighbour \/ HandleEvent
  BY <1>1, <1>3, LimiterQuiet DEF StartWatcher, EditNeighbour, HandleEvent, time, traffic
<1>4. CASE Tick \/ StepBack
  BY <1>1, <1>4, LimiterQuiet DEF Tick, StepBack, traffic
<1>5. CASE Stop
  BY <1>5 DEF Stop, LimiterInv
<1>6. ASSUME NEW ok \in BOOLEAN, Serve(ok) PROVE LimiterInv'
  BY <1>6, LimiterServes
<1>7. ASSUME NEW ok \in BOOLEAN, WatcherStarts(ok) PROVE LimiterInv'
  BY <1>1, <1>7, LimiterQuiet DEF WatcherStarts, time, traffic
<1>8. ASSUME NEW new \in Contents, EditFile(new) PROVE LimiterInv'
  BY <1>1, <1>8, LimiterQuiet DEF EditFile, time, traffic
<1>9. ASSUME NEW p \in Pems, NEW to \in {"good", "bad", "missing"}, EditPem(p, to) PROVE LimiterInv'
  BY <1>1, <1>9, LimiterQuiet DEF EditPem, time, traffic
<1>10. ASSUME NEW r \in Slots, NEW n \in Services, NEW c \in Clients, NEW uri \in Uris, RequestFilter(r, n, c, uri)
       PROVE  LimiterInv'
  BY <1>1, <1>10, LimiterQuiet DEF RequestFilter, time
<1>11. ASSUME NEW r \in Slots, AskLimiter(r) PROVE LimiterInv'
  BY <1>11, LimiterAnswers
<1>12. ASSUME NEW r \in Slots, SelectPeer(r) \/ Finish(r) PROVE LimiterInv'
  BY <1>1, <1>12, LimiterQuiet DEF SelectPeer, Finish, time
<1>13. CASE UNCHANGED proxyVars
  BY <1>1, <1>13, LimiterQuiet DEF proxyVars, time, traffic
<1> QED BY <1>2, <1>3, <1>4, <1>5, <1>6, <1>7, <1>8, <1>9, <1>10, <1>11, <1>12, <1>13 DEF ProxyNext

\* However the requests fall and however often the system's clock is put back,
\* no window's length sees more of a client than twice the limit
\* (rate_limit.rs:22-43).
THEOREM NeverMoreThanTwice == ProxySpec => []TwiceTheLimit
<1>1. ProxyInit => LimiterInv
  BY DEF ProxyInit, LimiterInv
<1>2. LimiterInv => TwiceTheLimit
  <2> SUFFICES ASSUME LimiterInv, NEW n \in Services, NEW c \in Clients, NEW t \in 0 .. MaxTime
               PROVE  Cardinality({i \in DOMAIN admits : /\ admits[i].service = n /\ admits[i].client = c
                                                         /\ admits[i].at \in t..(t + Window)}) <= 2 * MaxPerMinute
    BY DEF TwiceTheLimit
  <2>1. {i \in DOMAIN admits : /\ admits[i].service = n /\ admits[i].client = c /\ admits[i].at \in t..(t + Window)}
          = Within(admits, n, c, t)
    BY DEF Within, Of
  <2>2. CASE stage = "serving"
    BY <2>1, <2>2 DEF LimiterInv, InLimit
  <2>3. CASE stage # "serving"
    <3>1. Within(admits, n, c, t) = {}
      BY <2>3 DEF LimiterInv, Within, Of
    <3> QED BY <2>1, <3>1, FS_EmptySet, ProxyAssumption
  <2> QED BY <2>2, <2>3
<1> QED BY <1>1, <1>2, LimiterStep, ServeHolds, PTL DEF ProxySpec
=============================================================================
