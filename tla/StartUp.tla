------------------------------- MODULE StartUp -------------------------------
(***************************************************************************)
(* The start of the oauth service on its database and its life under       *)
(* administration: Config::from_env, initialize_database, run_migrations,  *)
(* seed_initial_data and main (oauth-service/src/config.rs, db.rs,         *)
(* state.rs, main.rs).                                                     *)
(*                                                                         *)
(* Every start runs every migration again and then the seeding of db.rs;   *)
(* there is no ledger of what ran and no transaction around any of it, so  *)
(* that each statement is a step and the process may end between any two.  *)
(* The statements of the migrations are INSERT OR IGNOREs: a row that is   *)
(* there, by its id or by its unique name, is left alone, but a reference  *)
(* to a row that is not there is an error and ends the process.            *)
(*                                                                         *)
(* Requests are served only after a start that has come through; those in  *)
(* hand when the process ends are lost.                                    *)
(***************************************************************************)
EXTENDS Administration, Sequences

CONSTANTS
  Migrations,        \* the statements of the migrations, in their order
  SeedUser, AdminRole, \* the names admin of the user and of the role
  SeedRoles, SeedPermissions, \* the names that db.rs seeds, in their order
  SeedClients,       \* the client_ids that db.rs seeds, in their order
  SeedScopes,        \* the scopes that db.rs seeds, in their order
  Values,            \* what the lists of a client may hold
  SeedLists,         \* what db.rs lists for each of them: its statements, in their order
  MaxEnds            \* how often the process may end (bound)

Statements ==
  [op : {"insert"}, kind : Kinds, id : SeedIds, name : Names]
    \union [op : {"list"}, client : Names, part : Parts, values : SUBSET Values]
    \union [op : {"grant"}, role : SeedIds, permissions : {SeedIds} \union {{i} : i \in SeedIds}]
    \union [op : {"member"}, user : SeedIds, role : SeedIds]

\* The rows of a table: a client's has its lists and a name that is generated
\* with its id, unless it is seeded.
Texts == Notes \union {"seed", Null}
Lists == [Parts -> SUBSET Values]
RowsOf(k) ==
  IF k = "client"
    THEN [name : Names \union Ids["client"], note : Texts, active : BOOLEAN, system : BOOLEAN, parts : Lists]
    ELSE [name : Names, note : Texts, active : BOOLEAN, system : BOOLEAN]

ASSUME StartUpAssumption ==
  /\ Migrations \in Seq(Statements) /\ MaxEnds \in Nat
  /\ SeedIds \subseteq UNION {Ids[k] : k \in Kinds}
  /\ ClientForm \in Lists
  /\ \A k \in Kinds : {Unused, Gone} \intersect RowsOf(k) = {}

\* What db.rs seeds are names, the role of the user admin among them; it lists a
\* value once, and no client_id that is generated is one of the names.
Listings == [part : Parts, values : SUBSET Values]

ASSUME SeedsAssumption ==
  /\ SeedRoles \in Seq(Names) /\ SeedPermissions \in Seq(Names) /\ SeedClients \in Seq(Names)
  /\ SeedScopes \in Seq(Values) /\ Null # <<>>
  /\ SeedUser \in Names /\ AdminRole \in {SeedRoles[j] : j \in DOMAIN SeedRoles}
  /\ SeedLists \in Seq(Listings)
  /\ \A j, h \in DOMAIN SeedLists : j # h /\ SeedLists[j].part = SeedLists[h].part =>
       SeedLists[j].values \intersect SeedLists[h].values = {}
  /\ Names \intersect Ids["client"] = {}

\* A row of the migrations has an id of its kind; an id belongs to one client,
\* and a client's lists come after its row.
AddsClient(j) == Migrations[j].op = "insert" /\ Migrations[j].kind = "client"

ASSUME MigrationsAssumption ==
  /\ \A j \in DOMAIN Migrations : Migrations[j].op = "insert" => Migrations[j].id \in Ids[Migrations[j].kind]
  /\ \A j, h \in DOMAIN Migrations :
       AddsClient(j) /\ AddsClient(h) /\ Migrations[j].id = Migrations[h].id => Migrations[j].name = Migrations[h].name
  /\ \A j \in DOMAIN Migrations : Migrations[j].op = "list" =>
       \E h \in 1..(j - 1) : AddsClient(h) /\ Migrations[h].name = Migrations[j].client

VARIABLES
  phase,   \* down, the stage of the start, serving, or failed
  next,    \* the position of the next statement or seed of the stage
  todo,    \* locals of a seeding function: what it still has to write
  ends,    \* how often the process has ended
  scopes   \* the names in the table of scopes, which only this writes

boot == <<phase, next, todo, ends, scopes>>
bootVars == <<adminVars, boot>>

\* The stages of a start, in the order of initialize_database and of
\* seed_initial_data in it.
Stages == <<"migrate", "user", "roles", "permissions", "grants", "clients", "scopes", "serving">>

Stage(p) == CHOOSE j \in DOMAIN Stages : Stages[j] = p
Booting == phase \in {Stages[j] : j \in 1..(Len(Stages) - 1)}

BootInit == AdminInit /\ phase = "down" /\ next = 1 /\ todo = Null /\ ends = 0 /\ scopes = {}

\* The next stage begins.
Proceed == phase' = Stages[Stage(phase) + 1] /\ next' = 1 /\ todo' = Null /\ UNCHANGED <<ends, scopes>>
GoForth == next' = next + 1 /\ UNCHANGED <<phase, todo, ends, scopes>>
NoRequest == UNCHANGED <<logs, handlers>>

\* initialize_database on a database that is there or is created now; with
\* SKIP_DB_INIT, an operator's word that it is complete, nothing of this runs.
Start ==
  /\ phase = "down" /\ phase' = "migrate" /\ next' = 1 /\ todo' = Null
  /\ UNCHANGED <<ends, scopes, tables>> /\ NoRequest

-----------------------------------------------------------------------------
(* run_migrations                                                          *)

\* Mutant of Fails: a row that is there already is an error too.
FailsIfThere(s) == s.op = "insert" /\ s.id \in Rows(s.kind)

Fails(s) ==
  \/ /\ s.op = "grant"
     /\ s.role \notin Rows("role") \/ (s.permissions # SeedIds /\ ~ s.permissions \subseteq Rows("permission"))
  \/ s.op = "member" /\ (s.user \notin Rows("user") \/ s.role \notin Rows("role"))

\* Where a grant is a SELECT over the permissions it takes those there are.
Granted(s) == {s.role} \X (IF s.permissions = SeedIds
  THEN {i \in Rows("permission") : table["permission"][i].system} ELSE s.permissions)

SeedRow(k, name) ==
  IF k = "client" THEN ClientRow(name, [p \in Parts |-> {}])
  ELSE Row(name, "seed", k \in {"role", "permission"})

\* Mutant of InsertOrIgnore: the migration puts its row in place of another.
InsertOrReplace(s) ==
  Put(s.kind, s.id, IF s.kind = "client" /\ s.id \in Rows("client") THEN table["client"][s.id] ELSE SeedRow(s.kind, s.name))

InsertOrIgnore(s) ==
  IF s.id \in Rows(s.kind) \/ Named(s.kind, s.name) # {} THEN UNCHANGED table
  ELSE Put(s.kind, s.id, SeedRow(s.kind, s.name))

\* The client of a statement, with what the statement lists for it.
WithList(c, s) == [c EXCEPT !.parts[s.part] = @ \union s.values]

Execute(s) ==
  /\ s.op = "insert" => InsertOrIgnore(s)
  /\ s.op = "list" =>
       table' = [table EXCEPT !["client"] = [i \in Ids["client"] |->
         IF i \in Named("client", s.client) THEN WithList(@[i], s) ELSE @[i]]]
  /\ s.op \in {"grant", "member"} => UNCHANGED table
  /\ roleGrants' = IF s.op = "grant" THEN roleGrants \union Granted(s) ELSE roleGrants
  /\ members' = IF s.op = "member" THEN members \union {<<s.user, s.role>>} ELSE members

Migrate ==
  /\ phase = "migrate" /\ NoRequest
  /\ \/ next > Len(Migrations) /\ Proceed /\ UNCHANGED tables
     \/ next <= Len(Migrations) /\ ~Fails(Migrations[next]) /\ Execute(Migrations[next]) /\ GoForth
     \/ /\ next <= Len(Migrations) /\ Fails(Migrations[next]) /\ phase' = "failed"
        /\ UNCHANGED <<tables, next, todo, ends, scopes>>

-----------------------------------------------------------------------------
(* seed_initial_data: each row is looked for by its name and then added     *)

Seed(k, name) ==
  /\ IF Named(k, name) # {} THEN UNCHANGED table ELSE Insert(k, SeedRow(k, name))
  /\ UNCHANGED <<roleGrants, members>>

SeedAdminUser == phase = "user" /\ Seed("user", SeedUser) /\ Proceed /\ NoRequest

SeedDefaultRoles ==
  /\ phase = "roles" /\ NoRequest
  /\ IF next > Len(SeedRoles) THEN Proceed /\ UNCHANGED tables ELSE Seed("role", SeedRoles[next]) /\ GoForth

SeedDefaultPermissions ==
  /\ phase = "permissions" /\ NoRequest
  /\ IF next > Len(SeedPermissions) THEN Proceed /\ UNCHANGED tables
     ELSE Seed("permission", SeedPermissions[next]) /\ GoForth

\* The role named admin gets every system permission, one by one, and the user
\* admin gets the role, unless the role has some permission already.
SeedRolePermissions ==
  /\ phase = "grants" /\ NoRequest /\ UNCHANGED table
  /\ LET role == CHOOSE i \in Named("role", AdminRole) : TRUE
         user == CHOOSE i \in Named("user", SeedUser) : TRUE IN
     \/ /\ todo = Null /\ \E g \in roleGrants : g[1] = role
        /\ Proceed /\ UNCHANGED <<roleGrants, members>>
     \/ /\ todo = Null /\ ~ \E g \in roleGrants : g[1] = role
        /\ todo' = {i \in Rows("permission") : table["permission"][i].system}
        /\ UNCHANGED <<phase, next, ends, scopes, roleGrants, members>>
     \/ /\ todo \notin {Null, {}}
        /\ LET p == CHOOSE p \in todo : TRUE IN todo' = todo \ {p} /\ roleGrants' = roleGrants \union {<<role, p>>}
        /\ UNCHANGED <<phase, next, ends, scopes, members>>
     \/ todo = {} /\ members' = members \union {<<user, role>>} /\ Proceed /\ UNCHANGED roleGrants

\* A client that is there is left alone, whole or not; a new one gets its row
\* and then its lists.
SeedOAuthClients ==
  /\ phase = "clients" /\ NoRequest /\ UNCHANGED <<roleGrants, members>>
  /\ \/ next > Len(SeedClients) /\ Proceed /\ UNCHANGED table
     \/ /\ next <= Len(SeedClients) /\ todo = Null
        /\ IF Named("client", SeedClients[next]) # {} THEN UNCHANGED table /\ GoForth
           ELSE /\ Insert("client", SeedRow("client", SeedClients[next]))
                /\ todo' = SeedLists /\ UNCHANGED <<phase, next, ends, scopes>>
     \/ /\ next <= Len(SeedClients) /\ todo # Null /\ todo # <<>>
        /\ LET i == CHOOSE i \in Named("client", SeedClients[next]) : TRUE IN
           Put("client", i, WithList(table["client"][i], Head(todo)))
        /\ todo' = Tail(todo) /\ UNCHANGED <<phase, next, ends, scopes>>
     \/ /\ todo = <<>> /\ todo' = Null /\ next' = next + 1 /\ UNCHANGED <<phase, ends, scopes, table>>

SeedDefaultScopes ==
  /\ phase = "scopes" /\ NoRequest /\ UNCHANGED tables
  /\ IF next > Len(SeedScopes) THEN Proceed
     ELSE scopes' = scopes \union {SeedScopes[next]} /\ next' = next + 1 /\ UNCHANGED <<phase, todo, ends>>

-----------------------------------------------------------------------------
\* The process ends: by a signal, by a crash, or because its start failed.
Quit ==
  /\ phase # "down" /\ ends < MaxEnds /\ ends' = ends + 1
  /\ phase' = "down" /\ next' = 1 /\ todo' = Null
  /\ awaits' = [a \in Admins |-> "idle"]
  /\ req' = [a \in Admins |-> Null] /\ loaded' = [a \in Admins |-> Null] /\ last' = Null
  /\ UNCHANGED <<tables, logs, budget, scopes>>

\* main: requests are taken once initialize_database has come back.
Serve == phase = "serving" /\ UNCHANGED boot /\ ((\E a \in Admins : AdminSteps(a)) \/ Record)

Boot ==
  \/ Start \/ Migrate \/ SeedAdminUser \/ SeedDefaultRoles \/ SeedDefaultPermissions
  \/ SeedRolePermissions \/ SeedOAuthClients \/ SeedDefaultScopes

BootNext == Boot \/ Serve \/ Quit

\* The start goes on by itself; nothing is assumed of requests.
BootSpec == BootInit /\ [][BootNext]_bootVars /\ WF_bootVars(Boot)

-----------------------------------------------------------------------------
(* Properties                                                              *)

\* How much a stage writes one by one.
Length(p) ==
  CASE p \in {"migrate", "failed"} -> Len(Migrations) [] p = "roles" -> Len(SeedRoles)
    [] p = "permissions" -> Len(SeedPermissions) [] p = "clients" -> Len(SeedClients)
    [] p = "scopes" -> Len(SeedScopes) [] OTHER -> 0

\* The type invariant: rows, no two of one name in a table, references to them,
\* and where the process and the requests stand.
BootTypeOK ==
  /\ \A k \in Kinds : \A i \in Rows(k) : table[k][i] \in RowsOf(k)
  /\ \A k \in Kinds : \A i, j \in Rows(k) : table[k][i].name = table[k][j].name => i = j
  /\ roleGrants \subseteq Ids["role"] \X Ids["permission"] /\ members \subseteq Ids["user"] \X Ids["role"]
  /\ phase \in {Stages[j] : j \in DOMAIN Stages} \union {"down", "failed"}
  /\ next \in 1..(Length(phase) + 1) /\ ends \in 0..MaxEnds
  /\ scopes \subseteq {SeedScopes[j] : j \in DOMAIN SeedScopes}
  /\ logs \in 0..MaxLogs /\ budget \in 0..MaxRequests
  /\ \A a \in Admins : phase # "serving" => awaits[a] = "idle"
  /\ \A a \in Admins : awaits[a] = "idle" <=> req[a] = Null

\* What the migrations list for a client.
Migrated(name) == [p \in Parts |->
  UNION {Migrations[j].values : j \in {j \in DOMAIN Migrations :
    Migrations[j].op = "list" /\ Migrations[j].client = name /\ Migrations[j].part = p}}]

\* The first lists that db.rs writes for a client, in its order.
Beginning(j) == [p \in Parts |-> UNION {SeedLists[h].values : h \in {h \in 1..j : SeedLists[h].part = p}}]

\* Nothing is left half there.  Every grant and member is of rows there are,
\* although a role may be deleted while it is granted permissions; and while
\* the service serves, every client has all its lists: one an administrator
\* registered, although a value given twice or the end of the process can stop
\* the registration anywhere, and one of the migrations, although a start may
\* have ended between its rows.  Only a client that db.rs itself adds may be
\* cut short, and then it has the beginning of its lists.
NothingIsHalfThere ==
  /\ roleGrants \subseteq Rows("role") \X Rows("permission")
  /\ members \subseteq Rows("user") \X Rows("role")
  /\ phase = "serving" => \A i \in Rows("client") :
       LET c == table["client"][i] IN
       IF i \in SeedIds THEN c.parts = Migrated(c.name)
       ELSE IF c.name \in {SeedClients[j] : j \in DOMAIN SeedClients}
         THEN \E j \in 0..Len(SeedLists) : c.parts = Beginning(j)
         ELSE c.parts = ClientForm

\* A start adds what is missing and leaves alone what administrators have made
\* of the rest: no row is changed or removed, no grant and no member.
StartsOnlyAdd ==
  [][Booting => /\ \A k \in Kinds : \A i \in Rows(k) :
                    table'[k][i] = table[k][i] \/ (k = "client" /\ table'[k][i] = [table[k][i] EXCEPT !.parts = table'[k][i].parts])
                /\ roleGrants \subseteq roleGrants' /\ members \subseteq members']_bootVars

\* A row of the migrations is missing that other statements of them refer to,
\* and cannot be inserted because another row has its name by now.
Conflicted ==
  \E j \in DOMAIN Migrations :
    LET s == Migrations[j] IN
    /\ s.op = "insert" /\ s.id \notin Rows(s.kind) /\ Named(s.kind, s.name) # {}
    /\ \E h \in DOMAIN Migrations :
         \/ Migrations[h].op = "grant" /\ (Migrations[h].role = s.id \/ s.id \in Migrations[h].permissions)
         \/ Migrations[h].op = "member" /\ s.id \in {Migrations[h].role, Migrations[h].user}

\* The service starts again from whatever an earlier start that ended somewhere
\* has left, and whatever administrators have done since, unless a row it
\* refers to by its id has been replaced by one of the same name.
StartsUnlessConflicted == (Booting \/ phase = "down") /\ ~Conflicted ~> phase = "serving"

\* A page that the answer to a query of the audit log counts among its pages
\* has rows, whatever was logged between the count and the reading, unless the
\* reading failed.
CountedPagesHaveRows ==
  last # Null /\ last.after = "page" =>
    LET answer == last.body IN ~answer.failed /\ answer.page <= answer.pages => answer.size > 0
=============================================================================
