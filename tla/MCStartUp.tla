------------------------------ MODULE MCStartUp ------------------------------
(* StartUp with the migrations abridged to one user, two roles, two        *)
(* permissions and one client, a second client that only db.rs seeds, and  *)
(* two administrators who make two requests between starts.                *)
EXTENDS StartUp

CONSTANTS u1, u2, u3, r1, r2, r3, r4, r5, p1, p2, p3, p4, p5, c1, c2, c3,
          admin, jane, super, viewer, boss, listing, consent, creating, portal, test,
          uri, scope, email

MCIds == [k \in Kinds |->
  CASE k = "user" -> {u1, u2, u3} [] k = "role" -> {r1, r2, r3, r4, r5}
    [] k = "permission" -> {p1, p2, p3, p4, p5} [] k = "client" -> {c1, c2, c3}]
MCSeedIds == {u1, r1, r2, p1, p2, c1}
MCNames == {admin, jane, super, viewer, boss, listing, consent, creating, portal, test, Blank}

MCParts == {"uris", "scopes"}
MCValues == {uri, scope, email}
MCSeedLists == <<[part |-> "uris", values |-> {uri}], [part |-> "scopes", values |-> {scope}],
                 [part |-> "scopes", values |-> {email}]>>
MCForm == [p \in MCParts |-> IF p = "uris" THEN {uri} ELSE {scope}]

Insertion(k, i, n) == [op |-> "insert", kind |-> k, id |-> i, name |-> n]
Listing(c, p, v) == [op |-> "list", client |-> c, part |-> p, values |-> v]
Grant(r, ps) == [op |-> "grant", role |-> r, permissions |-> ps]

\* 002: user, client, roles, permissions, grants and member; 005: a permission
\* and its grant.
MCMigrations == <<
  Insertion("user", u1, admin), Insertion("client", c1, portal),
  Listing(portal, "uris", {uri}), Listing(portal, "scopes", {scope, email}),
  Insertion("role", r1, super), Insertion("role", r2, admin), Insertion("permission", p1, listing),
  Grant(r1, MCSeedIds), Grant(r2, {p1}), [op |-> "member", user |-> u1, role |-> r1],
  Insertion("permission", p2, consent), Grant(r2, {p2}) >>

MCSeedRoles == <<admin, viewer>>
MCSeedPermissions == <<listing, creating>>
MCSeedScopes == <<scope>>
MCSeedClients == <<portal, test>>

Create(k, n) == [kind |-> k, op |-> "create", name |-> n, note |-> Null]
NewUser(n, p) == [kind |-> "user", op |-> "create", name |-> n, password |-> p, note |-> Null]
NewClient(n, t, twice) == [kind |-> "client", op |-> "create", name |-> n, type |-> t, twice |-> twice]
On(k, op, i) == [kind |-> k, op |-> op, id |-> i]
All(k, l, o) == [kind |-> k, op |-> "list", limit |-> l, offset |-> o]

UserAsks == {NewUser(jane, "long"), NewUser(jane, "short"), All("user", Null, 1), On("user", "me", Null),
  On("user", "get", u1), On("user", "delete", u1), On("user", "delete", u3),
  [kind |-> "user", op |-> "update", id |-> u1, note |-> "new", active |-> Null]}

RoleAsks == {Create("role", super), Create("role", boss), Create("role", Blank), All("role", 1, Null),
  On("role", "get", r1), On("role", "delete", r1), On("role", "delete", r2),
  [kind |-> "role", op |-> "update", id |-> r1, name |-> Null, note |-> "new"],
  [kind |-> "role", op |-> "update", id |-> r2, name |-> boss, note |-> Null]}

PermissionAsks == {Create("permission", consent), Create("permission", Blank), All("permission", -1, -1),
  On("permission", "get", p2), On("permission", "delete", p2),
  [kind |-> "permission", op |-> "update", id |-> p2, note |-> Null]}

AssignmentAsks == {[kind |-> "grant", op |-> "get", id |-> r2], [kind |-> "member", op |-> "get", id |-> u1],
  [kind |-> "grant", op |-> "assign", id |-> r2, permissions |-> {p2, p3}],
  [kind |-> "grant", op |-> "assign", id |-> r1, permissions |-> {p1, p4}],
  [kind |-> "grant", op |-> "remove", id |-> r2, permissions |-> {p1, p2}],
  [kind |-> "member", op |-> "assign", id |-> u1, role |-> r2],
  [kind |-> "member", op |-> "remove", id |-> u1, role |-> r1]}

ClientAsks == {NewClient(Blank, "PUBLIC", FALSE), NewClient(test, "other", FALSE),
  NewClient(test, "PUBLIC", FALSE), NewClient(test, "CONFIDENTIAL", TRUE),
  On("client", "get", c3), On("client", "update", c1), On("client", "delete", c1), All("client", Null, Null)}

AuditAsks == {[kind |-> "audit", op |-> "list", page |-> 1, limit |-> 1],
  [kind |-> "audit", op |-> "list", page |-> 2, limit |-> 9],
  [kind |-> "audit", op |-> "export", format |-> "csv"]}

MCAsks == UserAsks \union RoleAsks \union PermissionAsks \union AssignmentAsks \union ClientAsks \union AuditAsks
MCNotes == {Null, "new"}
MCLimits == {Null, -1, 1}
=============================================================================
