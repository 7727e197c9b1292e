-------------------------- MODULE MCAccessControl ---------------------------
(* AccessControl for TLC: a user with every permission, one who may only   *)
(* read users and roles, a client that may only create, and tokens without *)
(* permissions (a refresh token, an ID token); HS256 with a file or a      *)
(* variable for its secret, RS256, and a start that fails.                 *)
EXTENDS AccessControl, TLC

CONSTANTS alice

Everything == UNION {row.required : row \in RoutePermissions}
UserTokens ==
  {TokenClaims("access", alice, Everything),
   TokenClaims("access", alice, {<<"users", "read">>, <<"roles", "read">>}),
   TokenClaims("refresh", alice, {}), TokenClaims("id", alice, {})}
ClientTokens == {TokenClaims("access", NoUser, {<<f, "create">> : f \in Resources})}

Starts ==
  {Environment("complete", "path", "path", "unset", 0),
   Environment("complete", "path", "path", "RS256", 0),
   Environment("complete", "empty", "empty", "ES256", 1),
   Environment("complete", "path", "unset", "RS256", 0)}
=============================================================================
