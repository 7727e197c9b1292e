--------------------------- MODULE Administration ---------------------------
(***************************************************************************)
(* The administration of the oauth service: users, roles, permissions and  *)
(* clients, and the reading of the audit log (oauth-service/src/routes/    *)
(* users.rs, roles.rs, permissions.rs, clients.rs, audit_logs.rs and the   *)
(* services behind them).  StartUp composes it with the service's start,   *)
(* which fills the same tables.                                            *)
(*                                                                         *)
(* Several administrators work at once; a handler takes one step per       *)
(* statement that leaves its transaction, and the others go on in between. *)
(* The UNIQUE and FOREIGN KEY constraints are the schema's: an insert or   *)
(* update against one fails.  Lockout is UserAccount's subject, the cache  *)
(* of a user's permissions PermissionCache's; the access that a request    *)
(* needs was checked in front of these handlers (AccessControl).           *)
(*                                                                         *)
(* Of a row the model keeps its unique name, one free text and what else a *)
(* handler looks at.  Pages of a list are kept as sizes.                   *)
(***************************************************************************)
EXTENDS Integers, FiniteSets

CONSTANTS
  Admins,            \* administrators, each with one request at a time
  Ids,               \* kind of row -> ids it may get (bounds the model)
  SeedIds,           \* those that only the migrations use
  Asks,              \* what administrators ask for (bounds the model)
  Names, Notes, Limits, \* names, free texts and page bounds in it
  MaxRequests,       \* how many requests there are in all (bound)
  MaxLogs,           \* audit rows other programs may write (bound)
  Parts,             \* the tables of lists that belong to a client
  ClientForm,        \* part -> what an administrator registers for a client
  PageCap, Page,     \* the largest and the default page of a list: 100 and 50
  LogCap, Word,      \* the largest page of the audit log, 500, and 2^32
  Unused, Gone,      \* an id that has no row yet, or no longer
  Null, Blank        \* no value given, and a name of white space

Kinds == {"user", "role", "permission", "client"}

ASSUME AdministrationAssumption ==
  /\ DOMAIN Ids = Kinds /\ \A k \in Kinds : Ids[k] # {}
  /\ DOMAIN ClientForm = Parts
  /\ PageCap \in Nat /\ Page \in 0..PageCap /\ LogCap \in Nat \ {0} /\ Word \in Nat /\ Word > LogCap
  /\ Limits \subseteq Int \union {Null} /\ Null \notin Asks /\ MaxRequests \in Nat /\ MaxLogs \in Nat

VARIABLES
  table,      \* kind -> id -> row, Unused or Gone
  roleGrants, \* role_permissions: pairs of a role's and a permission's id
  members,    \* user_roles: pairs of a user's and a role's id
  logs,       \* how many rows audit_logs has; nothing in the service writes one
  awaits,     \* administrator -> the await its request has reached
  req,        \* administrator -> its request, or Null
  loaded,     \* administrator -> what its handler has read, or Null
  last,       \* the answer the step before gave, or Null
  budget      \* requests that may still come

tables == <<table, roleGrants, members>>
handlers == <<awaits, req, loaded, last, budget>>
adminVars == <<tables, logs, handlers>>

-----------------------------------------------------------------------------
(* Rows                                                                    *)

\* An active row; system marks what the service itself has put there.
Row(name, note, system) == [name |-> name, note |-> note, active |-> TRUE, system |-> system]

UserRow(name, note) == Row(name, note, FALSE)
RoleRow(name, note) == Row(name, note, FALSE)
PermissionRow(name, note) == Row(name, note, FALSE)

\* A client's client_id is generated with its id; its lists are other tables.
ClientRow(name, parts) ==
  [name |-> name, note |-> Null, active |-> TRUE, system |-> FALSE, parts |-> parts]

Rows(k) == {i \in Ids[k] : table[k][i] \notin {Unused, Gone}}
Named(k, n) == {i \in Rows(k) : table[k][i].name = n}
FreshIds(k) == {i \in Ids[k] \ SeedIds : table[k][i] = Unused}
Put(k, i, row) == table' = [table EXCEPT ![k][i] = row]
Insert(k, row) == FreshIds(k) # {} /\ Put(k, CHOOSE i \in FreshIds(k) : TRUE, row)

-----------------------------------------------------------------------------
(* Requests and answers                                                    *)

\* The status of an error of the service layer (IntoResponse for AppError).
Status(e) ==
  CASE e \in {"ValidationError", "InvalidScope"} -> 400
    [] e \in {"Unauthorized", "JwtError"} -> 401
    [] e = "Forbidden" -> 403
    [] e = "NotFound" -> 404
    [] e = "Conflict" -> 409
    [] e = "RateLimitExceeded" -> 429
    [] e \in {"Database", "Internal", "PasswordError", "CacheError"} -> 500

Idle(a) == awaits[a] = "idle" /\ budget > 0
Take(a) == budget' = budget - 1

Answer(a, status, body) ==
  /\ awaits' = [awaits EXCEPT ![a] = "idle"]
  /\ req' = [req EXCEPT ![a] = Null] /\ loaded' = [loaded EXCEPT ![a] = Null]
  /\ last' = [after |-> awaits[a], status |-> status, body |-> body]

Refuse(a, e) == Answer(a, Status(e), Null) /\ UNCHANGED tables

\* The handler of the route passes the request r on, to the await named to.
Await(a, r, to) ==
  /\ awaits' = [awaits EXCEPT ![a] = to] /\ req' = [req EXCEPT ![a] = r]
  /\ last' = Null /\ UNCHANGED <<tables, loaded>>

\* The request has reached the await from, for this kind of row.
Reached(a, from, k) == awaits[a] = from /\ req[a].kind = k

\* It goes on to another await having read this.
GoOn(a, to, read) ==
  /\ awaits' = [awaits EXCEPT ![a] = to] /\ loaded' = [loaded EXCEPT ![a] = read]
  /\ last' = Null /\ UNCHANGED req

\* What the requests of each route may say.
UserRequests ==
  [kind : {"user"}, op : {"create"}, name : Names, password : {"long", "short"}, note : Notes]
    \union [kind : {"user"}, op : {"update"}, id : Ids["user"], note : Notes, active : BOOLEAN \union {Null}]
    \union [kind : {"user"}, op : {"get", "delete", "me"}, id : Ids["user"] \union {Null}]
    \union [kind : {"user"}, op : {"list"}, limit : Limits, offset : Limits]

RoleRequests ==
  [kind : {"role"}, op : {"create"}, name : Names, note : Notes]
    \union [kind : {"role"}, op : {"update"}, id : Ids["role"], name : Names \union {Null}, note : Notes]
    \union [kind : {"role"}, op : {"get", "delete"}, id : Ids["role"]]
    \union [kind : {"role"}, op : {"list"}, limit : Limits, offset : Limits]

PermissionRequests ==
  [kind : {"permission"}, op : {"create"}, name : Names, note : Notes]
    \union [kind : {"permission"}, op : {"update"}, id : Ids["permission"], note : Notes]
    \union [kind : {"permission"}, op : {"get", "delete"}, id : Ids["permission"]]
    \union [kind : {"permission"}, op : {"list"}, limit : Limits, offset : Limits]

ClientRequests ==
  [kind : {"client"}, op : {"create"}, name : Names, type : {"PUBLIC", "CONFIDENTIAL", "other"}, twice : BOOLEAN]
    \union [kind : {"client"}, op : {"get", "delete", "update"}, id : Ids["client"]]
    \union [kind : {"client"}, op : {"list"}, limit : Limits, offset : Limits]

\* A role's permissions and a user's roles, read, added and removed.
GrantRequests ==
  [kind : {"grant"}, op : {"get"}, id : Ids["role"]]
    \union [kind : {"grant"}, op : {"assign", "remove"}, id : Ids["role"], permissions : SUBSET Ids["permission"]]

MemberRequests ==
  [kind : {"member"}, op : {"get"}, id : Ids["user"]]
    \union [kind : {"member"}, op : {"assign", "remove"}, id : Ids["user"], role : Ids["role"]]

AuditRequests ==
  [kind : {"audit"}, op : {"list"}, page : Nat, limit : Nat]
    \union [kind : {"audit"}, op : {"export"}, format : {"csv", "json"}]

-----------------------------------------------------------------------------
(* Lists                                                                   *)

\* The rows LIMIT and OFFSET leave; SQLite takes a negative LIMIT for none and
\* a negative OFFSET for 0.
Window(n, limit, offset) ==
  LET rest == IF offset < 0 THEN n ELSE IF offset > n THEN 0 ELSE n - offset
  IN IF limit < 0 \/ limit > rest THEN rest ELSE limit

Given(x, default) == IF x = Null THEN default ELSE x
AtMost(x, bound) == IF x > bound THEN bound ELSE x

\* The page of a list of users, roles or clients, by its size.
ListRoles(k, r) ==
  Window(Cardinality(Rows(k)), AtMost(Given(r.limit, Page), PageCap), Given(r.offset, 0))

ListUsers(r) == ListRoles("user", r)

\* Permissions have a larger default and no cap.
ListPermissions(r) ==
  Window(Cardinality(Rows("permission")), Given(r.limit, PageCap), Given(r.offset, 0))

List(a, k, size) ==
  /\ Reached(a, "list", k) /\ Answer(a, 200, size) /\ UNCHANGED <<tables, logs>>

-----------------------------------------------------------------------------
(* Users                                                                   *)

\* The handlers of the users' routes, up to their first await.
UserRoutes(a) ==
  \E r \in Asks \intersect UserRequests :
    /\ Idle(a) /\ Take(a) /\ UNCHANGED logs
    /\ \/ r.op = "create" /\ (r.name = Blank \/ r.password = "short") /\ Refuse(a, "ValidationError")
       \/ r.op = "create" /\ r.name # Blank /\ r.password = "long" /\ Await(a, r, "check")
       \/ r.op = "me" /\ r.id = Null /\ Refuse(a, "Unauthorized")
       \/ r.op \in {"get", "delete", "me", "update"} /\ r.id # Null /\ Await(a, r, "find")
       \/ r.op = "list" /\ Await(a, r, "list")

CheckUsername(a) ==
  /\ Reached(a, "check", "user") /\ UNCHANGED <<tables, logs, budget>>
  /\ \/ Named("user", req[a].name) # {} /\ Refuse(a, "ValidationError")
     \/ Named("user", req[a].name) = {} /\ GoOn(a, "insert", Null)

InsertUser(a) ==
  /\ Reached(a, "insert", "user") /\ UNCHANGED <<roleGrants, members, logs, budget>>
  /\ \/ Named("user", req[a].name) # {} /\ Refuse(a, "Database")
     \/ /\ Named("user", req[a].name) = {} /\ Insert("user", UserRow(req[a].name, req[a].note))
        /\ Answer(a, 200, req[a].name)

\* find_by_id for the routes that show or change a user; the read back after an
\* insert or an update is left out: a user's row never goes away.
FindUser(a) ==
  /\ Reached(a, "find", "user") /\ UNCHANGED <<tables, logs, budget>>
  /\ \/ req[a].id \notin Rows("user") /\ Refuse(a, "NotFound")
     \/ /\ req[a].id \in Rows("user")
        /\ IF req[a].op \in {"get", "me"}
             THEN Answer(a, 200, table["user"][req[a].id].name)
             ELSE GoOn(a, "write", table["user"][req[a].id])

\* Both columns are written, one of them perhaps as it was read.
UpdateUser(a) ==
  /\ Reached(a, "write", "user") /\ req[a].op = "update"
  /\ Put("user", req[a].id, [table["user"][req[a].id] EXCEPT
       !.note = Given(req[a].note, loaded[a].note), !.active = Given(req[a].active, loaded[a].active)])
  /\ Answer(a, 200, loaded[a].name) /\ UNCHANGED <<roleGrants, members, logs, budget>>

DeleteUser(a) ==
  /\ Reached(a, "write", "user") /\ req[a].op = "delete"
  /\ Put("user", req[a].id, [table["user"][req[a].id] EXCEPT !.active = FALSE])
  /\ Answer(a, 200, Null) /\ UNCHANGED <<roleGrants, members, logs, budget>>

UserSteps(a) ==
  \/ UserRoutes(a) \/ CheckUsername(a) \/ InsertUser(a) \/ FindUser(a) \/ UpdateUser(a) \/ DeleteUser(a)
  \/ List(a, "user", ListUsers(req[a])) /\ UNCHANGED budget

-----------------------------------------------------------------------------
(* Roles                                                                   *)

RoleRoutes(a) ==
  \E r \in Asks \intersect RoleRequests :
    /\ Idle(a) /\ Take(a) /\ UNCHANGED logs
    /\ \/ r.op = "create" /\ r.name = Blank /\ Refuse(a, "ValidationError")
       \/ r.op = "create" /\ r.name # Blank /\ Await(a, r, "check")
       \/ r.op \in {"get", "delete", "update"} /\ Await(a, r, "find")
       \/ r.op = "list" /\ Await(a, r, "list")

CheckRoleName(a) ==
  /\ Reached(a, "check", "role") /\ UNCHANGED <<tables, logs, budget>>
  /\ \/ Named("role", req[a].name) # {} /\ Refuse(a, "Conflict")
     \/ Named("role", req[a].name) = {} /\ GoOn(a, "insert", Null)

InsertRole(a) ==
  /\ Reached(a, "insert", "role") /\ UNCHANGED <<roleGrants, members, logs, budget>>
  /\ \/ Named("role", req[a].name) # {} /\ Refuse(a, "Database")
     \/ /\ Named("role", req[a].name) = {} /\ Insert("role", RoleRow(req[a].name, req[a].note))
        /\ GoOn(a, "reread", CHOOSE i \in FreshIds("role") : TRUE)

FindRole(a) ==
  /\ Reached(a, "find", "role") /\ UNCHANGED <<tables, logs, budget>>
  /\ LET i == req[a].id IN
     \/ i \notin Rows("role") /\ Refuse(a, "NotFound")
     \/ i \in Rows("role") /\ req[a].op = "get" /\ Answer(a, 200, table["role"][i].name)
     \/ i \in Rows("role") /\ req[a].op = "delete" /\ GoOn(a, "write", table["role"][i])
     \/ /\ i \in Rows("role") /\ req[a].op = "update"
        /\ GoOn(a, IF req[a].name \in {Null, table["role"][i].name} THEN "write" ELSE "conflict",
                table["role"][i])

FindRoleByName(a) ==
  /\ Reached(a, "conflict", "role") /\ UNCHANGED <<tables, logs, budget>>
  /\ \/ Named("role", req[a].name) # {} /\ Refuse(a, "Conflict")
     \/ Named("role", req[a].name) = {} /\ GoOn(a, "write", loaded[a])

\* The name is written in every case: UNIQUE may refuse it now, and a row that
\* is gone stays so.
UpdateRole(a) ==
  LET i == req[a].id  name == Given(req[a].name, loaded[a].name) IN
  /\ Reached(a, "write", "role") /\ req[a].op = "update" /\ UNCHANGED <<roleGrants, members, logs, budget>>
  /\ \/ i \in Rows("role") /\ ~ Named("role", name) \subseteq {i} /\ Refuse(a, "Database")
     \/ /\ i \in Rows("role") /\ Named("role", name) \subseteq {i}
        /\ Put("role", i, [table["role"][i] EXCEPT !.name = name, !.note = Given(req[a].note, loaded[a].note)])
        /\ GoOn(a, "reread", i)
     \/ i \notin Rows("role") /\ GoOn(a, "reread", i) /\ UNCHANGED table

\* What create_role and update_role answer: the row as it is by now.
ReadRoleBack(a) ==
  /\ Reached(a, "reread", "role") /\ UNCHANGED <<tables, logs, budget>>
  /\ \/ loaded[a] \in Rows("role") /\ Answer(a, 200, table["role"][loaded[a]].name)
     \/ loaded[a] \notin Rows("role") /\ Refuse(a, "Internal")

\* The row goes, and by the schema what refers to it; the caches of the users
\* concerned are PermissionCache's.
DeleteRole(a) ==
  /\ Reached(a, "write", "role") /\ req[a].op = "delete"
  /\ table' = [table EXCEPT !["role"][req[a].id] = Gone]
  /\ roleGrants' = {g \in roleGrants : g[1] # req[a].id} /\ members' = {m \in members : m[2] # req[a].id}
  /\ Answer(a, 200, Null) /\ UNCHANGED <<logs, budget>>

RoleSteps(a) ==
  \/ RoleRoutes(a) \/ CheckRoleName(a) \/ InsertRole(a) \/ FindRole(a) \/ FindRoleByName(a)
  \/ UpdateRole(a) \/ ReadRoleBack(a) \/ DeleteRole(a)
  \/ List(a, "role", ListRoles("role", req[a])) /\ UNCHANGED budget

-----------------------------------------------------------------------------
(* A role's permissions and a user's roles                                 *)

GrantRoutes(a) ==
  \E r \in Asks \intersect GrantRequests :
    Idle(a) /\ Take(a) /\ Await(a, r, IF r.op = "get" THEN "read" ELSE "find") /\ UNCHANGED logs

MemberRoutes(a) ==
  \E r \in Asks \intersect MemberRequests :
    Idle(a) /\ Take(a) /\ Await(a, r, IF r.op = "get" THEN "read" ELSE "write") /\ UNCHANGED logs

ReadGrants(a) ==
  /\ Reached(a, "read", "grant") /\ UNCHANGED <<tables, logs, budget>>
  /\ Answer(a, 200, {g[2] : g \in {g \in roleGrants : g[1] = req[a].id}})

ReadMembers(a) ==
  /\ Reached(a, "read", "member") /\ UNCHANGED <<tables, logs, budget>>
  /\ Answer(a, 200, {m[2] : m \in {m \in members : m[1] = req[a].id}})

\* The role is looked for before the transaction begins.
FindGrantedRole(a) ==
  /\ Reached(a, "find", "grant") /\ UNCHANGED <<tables, logs, budget>>
  /\ IF req[a].id \in Rows("role") THEN GoOn(a, "write", req[a].id) ELSE Refuse(a, "NotFound")

\* One transaction: every permission there is inserted unless the role has it;
\* one that is not there, or a role that is gone by now, undoes them all (the
\* first of the two that is met in the order of the request).
AssignPermissions(a) ==
  LET wanted == req[a].permissions IN
  /\ Reached(a, "write", "grant") /\ req[a].op = "assign" /\ UNCHANGED <<table, members, logs, budget>>
  /\ \/ ~ wanted \subseteq Rows("permission") /\ UNCHANGED roleGrants
        /\ Answer(a, Status("NotFound"), Null)
     \/ /\ wanted \intersect Rows("permission") # {} /\ req[a].id \notin Rows("role")
        /\ Answer(a, Status("Database"), Null) /\ UNCHANGED roleGrants
     \/ /\ wanted \subseteq Rows("permission") /\ (wanted = {} \/ req[a].id \in Rows("role"))
        /\ roleGrants' = roleGrants \union ({req[a].id} \X wanted) /\ Answer(a, 200, Null)

\* A permission the role does not have is no error.
RemovePermissions(a) ==
  /\ Reached(a, "write", "grant") /\ req[a].op = "remove" /\ UNCHANGED <<table, members, logs, budget>>
  /\ roleGrants' = roleGrants \ ({req[a].id} \X req[a].permissions) /\ Answer(a, 200, Null)

\* One transaction each, after which the user's cached permissions go.
AssignRole(a) ==
  LET pair == <<req[a].id, req[a].role>> IN
  /\ Reached(a, "write", "member") /\ req[a].op = "assign" /\ UNCHANGED <<logs, budget>>
  /\ \/ (req[a].role \notin Rows("role") \/ req[a].id \notin Rows("user")) /\ Refuse(a, "NotFound")
     \/ pair \in members /\ Refuse(a, "Conflict")
     \/ /\ req[a].role \in Rows("role") /\ req[a].id \in Rows("user") /\ pair \notin members
        /\ members' = members \union {pair} /\ Answer(a, 200, Null) /\ UNCHANGED <<table, roleGrants>>

RemoveRole(a) ==
  LET pair == <<req[a].id, req[a].role>> IN
  /\ Reached(a, "write", "member") /\ req[a].op = "remove" /\ UNCHANGED <<logs, budget>>
  /\ \/ pair \notin members /\ Refuse(a, "NotFound")
     \/ /\ pair \in members /\ members' = members \ {pair}
        /\ Answer(a, 200, Null) /\ UNCHANGED <<table, roleGrants>>

AssignmentSteps(a) ==
  \/ GrantRoutes(a) \/ ReadGrants(a) \/ FindGrantedRole(a) \/ AssignPermissions(a) \/ RemovePermissions(a)
  \/ MemberRoutes(a) \/ ReadMembers(a) \/ AssignRole(a) \/ RemoveRole(a)

-----------------------------------------------------------------------------
(* Permissions: every operation is one statement                           *)

PermissionRoutes(a) ==
  \E r \in Asks \intersect PermissionRequests :
    /\ Idle(a) /\ Take(a) /\ UNCHANGED logs
    /\ \/ r.op = "create" /\ r.name = Blank /\ Refuse(a, "ValidationError")
       \/ r.op # "create" /\ Await(a, r, r.op)
       \/ r.op = "create" /\ r.name # Blank /\ Await(a, r, "create")

CreatePermission(a) ==
  /\ Reached(a, "create", "permission") /\ UNCHANGED <<roleGrants, members, logs, budget>>
  /\ \/ Named("permission", req[a].name) # {} /\ Refuse(a, "Conflict")
     \/ /\ Named("permission", req[a].name) = {}
        /\ Insert("permission", PermissionRow(req[a].name, req[a].note))
        /\ Answer(a, 200, req[a].name)

FindPermission(a) ==
  /\ Reached(a, "get", "permission") /\ UNCHANGED <<tables, logs, budget>>
  /\ IF req[a].id \in Rows("permission")
       THEN Answer(a, 200, table["permission"][req[a].id].name)
       ELSE Refuse(a, "NotFound")

\* A description that is not given becomes NULL, and a missing row is an
\* internal error.
UpdatePermission(a) ==
  /\ Reached(a, "update", "permission") /\ UNCHANGED <<roleGrants, members, logs, budget>>
  /\ \/ /\ req[a].id \in Rows("permission")
        /\ Put("permission", req[a].id, [table["permission"][req[a].id] EXCEPT !.note = req[a].note])
        /\ Answer(a, 200, table["permission"][req[a].id].name)
     \/ req[a].id \notin Rows("permission") /\ Refuse(a, "Internal")

\* A missing row is no error.
DeletePermission(a) ==
  /\ Reached(a, "delete", "permission")
  /\ table' = [table EXCEPT !["permission"][req[a].id] = IF @ = Unused THEN @ ELSE Gone]
  /\ roleGrants' = {g \in roleGrants : g[2] # req[a].id}
  /\ Answer(a, 200, Null) /\ UNCHANGED <<members, logs, budget>>

PermissionSteps(a) ==
  \/ PermissionRoutes(a) \/ CreatePermission(a) \/ FindPermission(a)
  \/ UpdatePermission(a) \/ DeletePermission(a)
  \/ List(a, "permission", ListPermissions(req[a])) /\ UNCHANGED budget

-----------------------------------------------------------------------------
(* Clients                                                                 *)

ClientRoutes(a) ==
  \E r \in Asks \intersect ClientRequests :
    /\ Idle(a) /\ Take(a) /\ UNCHANGED logs
    /\ \/ r.op = "create" /\ r.name = Blank /\ Refuse(a, "ValidationError")
       \/ r.op = "create" /\ r.name # Blank /\ Await(a, r, "insert")
       \/ r.op # "create" /\ Await(a, r, IF r.op \in {"list", "update"} THEN r.op ELSE "find")

\* Mutant of InsertClient: the client's row is committed before its lists are.
InsertClientFirst(a) ==
  /\ Reached(a, "insert", "client") /\ UNCHANGED <<roleGrants, members, logs, budget>>
  /\ \/ req[a].type = "other" /\ Refuse(a, "ValidationError")
     \/ /\ req[a].type # "other" /\ req[a].twice
        /\ Insert("client", ClientRow(CHOOSE i \in FreshIds("client") : TRUE, [p \in Parts |-> {}]))
        /\ Answer(a, Status("Database"), Null)
     \/ /\ req[a].type # "other" /\ ~req[a].twice
        /\ Insert("client", ClientRow(CHOOSE i \in FreshIds("client") : TRUE, ClientForm))
        /\ GoOn(a, "parts", CHOOSE i \in FreshIds("client") : TRUE)

\* One transaction over the client's row and its lists: a value that is given
\* twice is against a primary key and undoes it all.
InsertClient(a) ==
  /\ Reached(a, "insert", "client") /\ UNCHANGED <<roleGrants, members, logs, budget>>
  /\ \/ req[a].type = "other" /\ Refuse(a, "ValidationError")
     \/ req[a].type # "other" /\ req[a].twice /\ Refuse(a, "Database")
     \/ /\ req[a].type # "other" /\ ~req[a].twice
        /\ Insert("client", ClientRow(CHOOSE i \in FreshIds("client") : TRUE, ClientForm))
        /\ GoOn(a, "parts", CHOOSE i \in FreshIds("client") : TRUE)

FindClient(a) ==
  /\ Reached(a, "find", "client") /\ UNCHANGED <<tables, logs, budget>>
  /\ IF req[a].id \in Rows("client") THEN GoOn(a, "parts", req[a].id) ELSE Refuse(a, "NotFound")

\* The client's lists are read at once, each on a connection of its own; a read
\* that fails passes for an empty list.
FindClientParts(a) ==
  /\ Reached(a, "parts", "client") /\ UNCHANGED <<tables, logs, budget>>
  /\ \E failed \in {{}} \union {{p} : p \in Parts} :
       LET found == [p \in Parts |-> IF p \in failed THEN {} ELSE table["client"][loaded[a]].parts[p]] IN
       IF req[a].op = "delete" THEN GoOn(a, "write", loaded[a]) ELSE Answer(a, 200, found)

\* The statement locks its row with FOR UPDATE, which SQLite does not know.
UpdateClient(a) ==
  /\ Reached(a, "update", "client") /\ Refuse(a, "Database") /\ UNCHANGED <<logs, budget>>

DeleteClient(a) ==
  /\ Reached(a, "write", "client")
  /\ Put("client", loaded[a], [table["client"][loaded[a]] EXCEPT !.active = FALSE])
  /\ Answer(a, 200, Null) /\ UNCHANGED <<roleGrants, members, logs, budget>>

\* The rows of a page are read again one by one; one that cannot be is left out.
ListClients(a) ==
  \E lost \in 0..1 :
    /\ lost <= ListRoles("client", req[a])
    /\ List(a, "client", ListRoles("client", req[a]) - lost) /\ UNCHANGED budget

ClientSteps(a) ==
  \/ ClientRoutes(a) \/ InsertClient(a) \/ FindClient(a) \/ FindClientParts(a)
  \/ UpdateClient(a) \/ DeleteClient(a)
  \/ Reached(a, "list", "client") /\ ListClients(a)

-----------------------------------------------------------------------------
(* The audit log                                                           *)

\* The page and the bounds that AuditLogService makes of the query.
PageNumber(r) == IF r.page < 1 THEN 1 ELSE r.page
PageLimit(r) == IF r.limit < 1 THEN 1 ELSE AtMost(r.limit, LogCap)

\* Mutant of PageOffset: pages are numbered from 0.
PageOffsetFromZero(r) == PageNumber(r) * PageLimit(r)

\* (page - 1) * limit in 32 bits, bound as a signed number.
PageOffset(r) ==
  LET product == ((PageNumber(r) - 1) * PageLimit(r)) % Word
  IN IF product >= Word \div 2 THEN product - Word ELSE product

Pages(total, limit) == (total + limit - 1) \div limit

AuditRoutes(a) ==
  \E r \in Asks \intersect AuditRequests :
    Idle(a) /\ Take(a) /\ Await(a, r, IF r.op = "list" THEN "count" ELSE "export") /\ UNCHANGED logs

\* Rows are counted first; a count that fails passes for 0.
CountLogs(a) ==
  /\ Reached(a, "count", "audit") /\ UNCHANGED <<tables, logs, budget>>
  /\ \E total \in {0, logs} : GoOn(a, "page", total)

\* Then the page is read, newest rows first; a read that fails passes for none.
ReadPage(a) ==
  /\ Reached(a, "page", "audit") /\ UNCHANGED <<tables, logs, budget>>
  /\ \E failed \in BOOLEAN :
       Answer(a, 200, [page |-> PageNumber(req[a]), failed |-> failed,
         pages |-> Pages(loaded[a], PageLimit(req[a])),
         size |-> IF failed THEN 0 ELSE Window(logs, PageLimit(req[a]), PageOffset(req[a]))])

\* An export has no bound; a read that fails passes for an empty log.
ExportLogs(a) ==
  /\ Reached(a, "export", "audit") /\ UNCHANGED <<tables, logs, budget>>
  /\ \E size \in {0, logs} : Answer(a, 200, size)

\* Another program adds a row to the audit log.
Record ==
  /\ logs < MaxLogs /\ logs' = logs + 1 /\ last' = Null
  /\ UNCHANGED <<tables, awaits, req, loaded, budget>>

AuditSteps(a) ==
  \/ AuditRoutes(a) \/ CountLogs(a) \/ ReadPage(a) \/ ExportLogs(a)

-----------------------------------------------------------------------------
AdminInit ==
  /\ table = [k \in Kinds |-> [i \in Ids[k] |-> Unused]]
  /\ roleGrants = {} /\ members = {} /\ logs = 0
  /\ awaits = [a \in Admins |-> "idle"]
  /\ req = [a \in Admins |-> Null] /\ loaded = [a \in Admins |-> Null]
  /\ last = Null /\ budget = MaxRequests

AdminSteps(a) ==
  \/ UserSteps(a) \/ RoleSteps(a) \/ PermissionSteps(a) \/ AssignmentSteps(a)
  \/ ClientSteps(a) \/ AuditSteps(a)
=============================================================================
