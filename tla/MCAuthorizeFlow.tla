--------------------------- MODULE MCAuthorizeFlow --------------------------
(* AuthorizeFlow with a confidential client that wants consent and a       *)
(* public one that wants none, each with its redirect URI and scope, and   *)
(* requests that are proper, of an unknown client, with the other client's *)
(* redirect URI, or without a challenge.                                   *)
EXTENDS AuthorizeFlow

CONSTANTS t1, t2, b1, b2, u1, u2, web, app, webUri, appUri, read, write, unknown

MCUris == [c \in {web, app} |-> IF c = web THEN {webUri} ELSE {appUri}]
MCScopes == [c \in {web, app} |-> IF c = web THEN {read, write} ELSE {read}]
MCTypes == [c \in {web, app} |-> {"code"}]

Query(c, u, s, ch) ==
  [client |-> c, uri |-> u, scope |-> s, type |-> "code", challenge |-> ch, state |-> "state"]

MCQueries == [t \in {t1, t2} |->
  IF t = t1
    THEN {Query(web, webUri, {read, write}, "good"), Query(app, appUri, {read}, "good"),
          Query(web, appUri, {read}, "good")}
    ELSE {Query(web, webUri, {read}, "none"), Query(app, appUri, {read}, "short"),
          Query(unknown, appUri, {read}, "good")}]

\* b1 is u1's; b2 is a client's.
MCBearers == [t \in {t1, t2} |-> IF t = t1 THEN {b1} ELSE {b2}]
MCBearerUser == [b \in {b1, b2} |-> IF b = b1 THEN u1 ELSE None]

Form(u, right, redirect) == [user |-> u, right |-> right, redirect |-> redirect]

MCForms ==
  {Form(u1, TRUE, "authorize"), Form(u2, TRUE, "authorize"), Form(u1, FALSE, "authorize"),
   Form(u2, TRUE, "path")}
=============================================================================
