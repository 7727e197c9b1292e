--------------------------- MODULE PermissionCache --------------------------
(***************************************************************************)
(* Who may do what: roles, their permissions, the per-user permission      *)
(* cache and the tokens that carry a user's permissions                    *)
(* (oauth-service/src/services/rbac_service.rs, role_service.rs,           *)
(* permission_service.rs and src/cache/permission_cache.rs).               *)
(*                                                                         *)
(* get_user_permissions reads the cache, then on a miss the database, then *)
(* fills the cache; a change of roles commits to the database and then     *)
(* removes cache entries.  Each of these is a separate await point.        *)
(*                                                                         *)
(* A role or permission of this model is its name: one that is created     *)
(* anew after its deletion is the same again.  A new role has neither      *)
(* users nor permissions, so create_role changes nothing that is read.     *)
(*                                                                         *)
(* Time is relative: an entry has an age, a token the time it has left.    *)
(* A Tick is longer than any handler takes to go from reading permissions  *)
(* to handing them on.                                                     *)
(***************************************************************************)
EXTENDS Naturals

CONSTANTS
  Requests,     \* the concurrent requests
  Users, Roles, Permissions,
  CacheTTL,     \* PERMISSION_CACHE_TTL: 300 seconds
  TokenTTL,     \* how long an access token is accepted: lifetime and leeway
  NoEntry,      \* "no cache entry"
  Calls         \* the operations invoked in this instance

ASSUME CacheAssumption ==
  /\ CacheTTL \in Nat /\ TokenTTL \in Nat
  /\ NoEntry \notin [permissions : SUBSET Permissions, age : 0..(CacheTTL + 1)]
  /\ Calls \subseteq {"token", "assign_role", "remove_role", "delete_role",
                      "permissions", "delete_permission", "drop"}

VARIABLES
  roles,             \* table roles
  user_roles,        \* table user_roles
  role_permissions,  \* table role_permissions
  cache,             \* user -> cache entry, or NoEntry
  tokens,            \* access tokens in the hands of clients
  pc,                \* request -> where its handler is
  who,               \* request -> the users it is about (to look up or to invalidate)
  role,              \* request -> the roles it is about to delete
  found,             \* request -> the permissions it has read
  since              \* history: user -> permission -> ticks since the user lost it

tables == <<roles, user_roles, role_permissions>>
handlers == <<pc, who, role, found>>
vars == <<tables, cache, tokens, handlers, since>>

Least(a, b) == IF a < b THEN a ELSE b

\* The query of get_user_permissions.
Granted(u) == {p \in Permissions : \E x \in Roles : <<u, x>> \in user_roles /\ <<x, p>> \in role_permissions}

\* CacheEntry::is_expired.
Expired(e) == e.age > CacheTTL

Live(u) == cache[u] # NoEntry /\ ~Expired(cache[u])

GoTo(r, from, to) == pc[r] = from /\ pc' = [pc EXCEPT ![r] = to]

\* The handler is finished and its local state is gone.
End(r) ==
  /\ pc' = [pc EXCEPT ![r] = "idle"]
  /\ who' = [who EXCEPT ![r] = {}]
  /\ role' = [role EXCEPT ![r] = {}]
  /\ found' = [found EXCEPT ![r] = {}]

\* Whatever is granted now was lost zero ticks ago.
Observe == since' = [u \in Users |-> [p \in Permissions |->
             IF p \in Granted(u)' THEN 0 ELSE since[u][p]]]

-----------------------------------------------------------------------------
(* The service starts on the tables an earlier run or the seed data left.  *)
Init ==
  /\ roles = Roles
  /\ user_roles \in SUBSET (Users \X Roles)
  /\ role_permissions \in SUBSET (Roles \X Permissions)
  /\ cache = [u \in Users |-> NoEntry]
  /\ tokens = {}
  /\ pc = [r \in Requests |-> "idle"]
  /\ who = [r \in Requests |-> {}]
  /\ role = [r \in Requests |-> {}]
  /\ found = [r \in Requests |-> {}]
  /\ since = [u \in Users |-> [p \in Permissions |->
                IF p \in Granted(u) THEN 0 ELSE CacheTTL + TokenTTL + 1]]

\* Mutant of CacheHit: a hit makes the entry young again.
CacheHitRenews(r, u) ==
  /\ "token" \in Calls
  /\ GoTo(r, "idle", "answered")
  /\ Live(u)
  /\ who' = [who EXCEPT ![r] = {u}]
  /\ found' = [found EXCEPT ![r] = cache[u].permissions]
  /\ cache' = [cache EXCEPT ![u].age = 0]
  /\ UNCHANGED <<tables, tokens, role, since>>

(* A login, a code grant or a refresh asks for the user's permissions and  *)
(* finds a live entry.                                                     *)
CacheHit(r, u) ==
  /\ "token" \in Calls
  /\ GoTo(r, "idle", "answered")
  /\ Live(u)
  /\ who' = [who EXCEPT ![r] = {u}]
  /\ found' = [found EXCEPT ![r] = cache[u].permissions]
  /\ UNCHANGED <<tables, cache, tokens, role, since>>

(* Or finds none, or one that has expired and is removed.                  *)
CacheMiss(r, u) ==
  /\ "token" \in Calls
  /\ GoTo(r, "idle", "miss")
  /\ ~Live(u)
  /\ who' = [who EXCEPT ![r] = {u}]
  /\ cache' = [cache EXCEPT ![u] = NoEntry]
  /\ UNCHANGED <<tables, tokens, role, found, since>>

(* Then the database is asked ...                                          *)
Query(r) ==
  /\ GoTo(r, "miss", "fetched")
  /\ \E u \in who[r] : found' = [found EXCEPT ![r] = Granted(u)]
  /\ UNCHANGED <<tables, cache, tokens, who, role, since>>

(* ... and the answer is cached with a new lifetime, whatever happened to  *)
(* the cache in between.                                                   *)
Fill(r) ==
  /\ GoTo(r, "fetched", "answered")
  /\ cache' = [u \in Users |-> IF u \in who[r] THEN [permissions |-> found[r], age |-> 0] ELSE cache[u]]
  /\ UNCHANGED <<tables, tokens, who, role, found, since>>

(* The permissions are signed into an access token, which the permission   *)
(* middleware trusts until it expires.                                     *)
IssueToken(r) ==
  /\ pc[r] = "answered"
  /\ End(r)
  /\ tokens' = tokens \union {[user |-> u, permissions |-> found[r], left |-> TokenTTL] : u \in who[r]}
  /\ UNCHANGED <<tables, cache, since>>

(* assign_role_to_user: one transaction, then the user's entry goes.       *)
AssignRole(r, u, x) ==
  /\ "assign_role" \in Calls
  /\ GoTo(r, "idle", "invalidating")
  /\ x \in roles /\ <<u, x>> \notin user_roles
  /\ user_roles' = user_roles \union {<<u, x>>}
  /\ who' = [who EXCEPT ![r] = {u}]
  /\ UNCHANGED <<roles, role_permissions, cache, tokens, role, found>>
  /\ Observe

(* remove_role_from_user, the same.                                        *)
RemoveRole(r, u, x) ==
  /\ "remove_role" \in Calls
  /\ GoTo(r, "idle", "invalidating")
  /\ <<u, x>> \in user_roles
  /\ user_roles' = user_roles \ {<<u, x>>}
  /\ who' = [who EXCEPT ![r] = {u}]
  /\ UNCHANGED <<roles, role_permissions, cache, tokens, role, found>>
  /\ Observe

(* delete_role reads the affected users ...                                *)
DeleteRoleRead(r, x) ==
  /\ "delete_role" \in Calls
  /\ GoTo(r, "idle", "deleting")
  /\ x \in roles
  /\ who' = [who EXCEPT ![r] = {u \in Users : <<u, x>> \in user_roles}]
  /\ role' = [role EXCEPT ![r] = {x}]
  /\ UNCHANGED <<tables, cache, tokens, found, since>>

(* ... deletes the role, and the foreign keys delete what refers to it ... *)
DeleteRole(r) ==
  /\ GoTo(r, "deleting", "invalidating")
  /\ roles' = roles \ role[r]
  /\ user_roles' = {ux \in user_roles : ux[2] \notin role[r]}
  /\ role_permissions' = {xp \in role_permissions : xp[1] \notin role[r]}
  /\ UNCHANGED <<cache, tokens, who, role, found>>
  /\ Observe

(* ... and removes the entries of the users it had read, one by one.       *)
Invalidate(r, u) ==
  /\ pc[r] = "invalidating" /\ u \in who[r]
  /\ cache' = [cache EXCEPT ![u] = NoEntry]
  /\ who' = [who EXCEPT ![r] = @ \ {u}]
  /\ UNCHANGED <<tables, tokens, pc, role, found, since>>

Invalidated(r) ==
  /\ pc[r] = "invalidating" /\ who[r] = {}
  /\ End(r)
  /\ UNCHANGED <<tables, cache, tokens, since>>

(* assign_permissions_to_role and remove_permissions_from_role: one        *)
(* transaction each, and no entry is removed.                              *)
ChangePermissions(x, ps) ==
  /\ "permissions" \in Calls
  /\ x \in roles
  /\ \/ role_permissions' = role_permissions \union ({x} \X ps)
     \/ role_permissions' = role_permissions \ ({x} \X ps)
  /\ UNCHANGED <<roles, user_roles, cache, tokens, handlers>>
  /\ Observe

(* delete_permission: the same, through the foreign keys.                  *)
DeletePermission(p) ==
  /\ "delete_permission" \in Calls
  /\ role_permissions' = role_permissions \ (Roles \X {p})
  /\ UNCHANGED <<roles, user_roles, cache, tokens, handlers>>
  /\ Observe

(* The client goes away or a statement fails, and the handler is dropped   *)
(* between two of its awaits.                                              *)
Drop(r) ==
  /\ "drop" \in Calls
  /\ pc[r] # "idle"
  /\ End(r)
  /\ UNCHANGED <<tables, cache, tokens, since>>

(* The process restarts with an empty cache.                               *)
Crash ==
  /\ "drop" \in Calls
  /\ cache' = [u \in Users |-> NoEntry]
  /\ pc' = [r \in Requests |-> "idle"]
  /\ who' = [r \in Requests |-> {}]
  /\ role' = [r \in Requests |-> {}]
  /\ found' = [r \in Requests |-> {}]
  /\ UNCHANGED <<tables, tokens, since>>

\* No handler sits on permissions it has read.
HandlersAreQuick == \A r \in Requests : pc[r] \notin {"fetched", "answered"}

Tick ==
  /\ HandlersAreQuick
  /\ cache' = [u \in Users |-> IF cache[u] = NoEntry THEN NoEntry
                 ELSE [cache[u] EXCEPT !.age = Least(@ + 1, CacheTTL + 1)]]
  /\ tokens' = {[t EXCEPT !.left = @ - 1] : t \in {s \in tokens : s.left > 0}}
  /\ since' = [u \in Users |-> [p \in Permissions |->
       IF p \in Granted(u) THEN 0 ELSE Least(since[u][p] + 1, CacheTTL + TokenTTL + 1)]]
  /\ UNCHANGED <<tables, handlers>>

Next ==
  \/ \E r \in Requests, u \in Users : CacheHit(r, u)
  \/ \E r \in Requests, u \in Users : CacheMiss(r, u)
  \/ \E r \in Requests : Query(r)
  \/ \E r \in Requests : Fill(r)
  \/ \E r \in Requests : IssueToken(r)
  \/ \E r \in Requests, u \in Users, x \in Roles : AssignRole(r, u, x)
  \/ \E r \in Requests, u \in Users, x \in Roles : RemoveRole(r, u, x)
  \/ \E r \in Requests, x \in Roles : DeleteRoleRead(r, x)
  \/ \E r \in Requests : DeleteRole(r)
  \/ \E r \in Requests, u \in Users : Invalidate(r, u)
  \/ \E r \in Requests : Invalidated(r)
  \/ \E x \in Roles, ps \in SUBSET Permissions : ChangePermissions(x, ps)
  \/ \E p \in Permissions : DeletePermission(p)
  \/ \E r \in Requests : Drop(r)
  \/ Crash
  \/ Tick

Spec == Init /\ [][Next]_vars

-----------------------------------------------------------------------------
(* Properties                                                              *)

Entries == [permissions : SUBSET Permissions, age : 0..(CacheTTL + 1)]

\* Type invariant of the tables, the cache, the tokens and the handlers.
TypeOK ==
  /\ roles \subseteq Roles
  /\ user_roles \subseteq Users \X roles
  /\ role_permissions \subseteq roles \X Permissions
  /\ cache \in [Users -> Entries \union {NoEntry}]
  /\ tokens \subseteq [user : Users, permissions : SUBSET Permissions, left : 0..TokenTTL]
  /\ pc \in [Requests -> {"idle", "miss", "fetched", "answered", "deleting", "invalidating"}]
  /\ who \in [Requests -> SUBSET Users]
  /\ role \in [Requests -> SUBSET Roles]
  /\ found \in [Requests -> SUBSET Permissions]
  /\ since \in [Users -> [Permissions -> 0..(CacheTTL + TokenTTL + 1)]]

\* Whatever races with whatever, and whichever change forgets to invalidate,
\* the cache serves no permission that the user lost longer ago than the
\* lifetime of an entry.
CacheStalenessBounded ==
  \A u \in Users : Live(u) =>
    \A p \in cache[u].permissions : since[u][p] <= CacheTTL

\* A token never carries a permission that its user lost longer ago than the
\* lifetime of a cache entry plus that of a token: this is how long a removed
\* permission still opens doors.
TokenStalenessBounded ==
  \A t \in tokens : \A p \in t.permissions : since[t.user][p] <= CacheTTL + TokenTTL
=============================================================================
