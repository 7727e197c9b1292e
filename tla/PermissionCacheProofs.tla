----------------------- MODULE PermissionCacheProofs ------------------------
(***************************************************************************)
(* Proofs about the permission cache, for any users, roles, permissions    *)
(* and lifetimes and any number of concurrent requests.                    *)
(***************************************************************************)
EXTENDS PermissionCache, TLAPS

\* What is granted was lost zero ticks ago.
GrantedIsNow == \A u \in Users : \A p \in Granted(u) : since[u][p] = 0

\* Nothing in a live entry was lost before the entry was filled.
EntriesAreDated ==
  \A u \in Users : Live(u) =>
    \A p \in cache[u].permissions : since[u][p] <= cache[u].age

\* A handler looks up one user; what it has just read it read in this tick,
\* and what it is about to sign is no older than a cache entry may be.
HandlersAreDated ==
  \A r \in Requests :
    /\ pc[r] \in {"miss", "fetched", "answered"} => \E u \in Users : who[r] = {u}
    /\ pc[r] = "fetched" => \A u \in who[r] : \A p \in found[r] : since[u][p] = 0
    /\ pc[r] = "answered" => \A u \in who[r] : \A p \in found[r] : since[u][p] <= CacheTTL

\* A token has aged by TokenTTL - left since its permissions were handed on.
TokensAreDated ==
  \A t \in tokens : \A p \in t.permissions : since[t.user][p] <= CacheTTL + TokenTTL - t.left

IInv ==
  /\ TypeOK
  /\ GrantedIsNow
  /\ EntriesAreDated
  /\ HandlersAreDated
  /\ TokensAreDated

LEMMA InitIInv == Init => IInv
<1> SUFFICES ASSUME Init PROVE IInv
  OBVIOUS
<1> USE CacheAssumption
<1>1. TypeOK
  BY DEF Init, TypeOK
<1>2. GrantedIsNow
  BY DEF Init, GrantedIsNow, Granted
<1>3. EntriesAreDated /\ HandlersAreDated /\ TokensAreDated
  BY DEF Init, EntriesAreDated, HandlersAreDated, TokensAreDated, Live
<1> QED BY <1>1, <1>2, <1>3 DEF IInv

\* A change of the tables can only make a permission younger.
LEMMA ObserveRejuvenates ==
  ASSUME TypeOK, Observe
  PROVE  /\ since' \in [Users -> [Permissions -> 0..(CacheTTL + TokenTTL + 1)]]
         /\ \A u \in Users, p \in Permissions : since'[u][p] <= since[u][p]
         /\ GrantedIsNow'
<1> USE CacheAssumption
<1>1. \A u \in Users, p \in Permissions :
        since[u][p] \in 0..(CacheTTL + TokenTTL + 1)
  BY DEF TypeOK
<1>2. \A u \in Users : Granted(u)' \subseteq Permissions
  BY DEF Granted
<1> QED BY <1>1, <1>2 DEF Observe, GrantedIsNow

\* What a change of the tables does to everything that is dated.
LEMMA ChangeKeepsDates ==
  ASSUME IInv, Observe, UNCHANGED <<cache, tokens, found>>,
         TypeOK',
         \A r \in Requests : pc'[r] \in {"miss", "fetched", "answered"} => pc'[r] = pc[r] /\ who'[r] = who[r]
  PROVE  IInv'
<1> USE CacheAssumption
<1>1. /\ \A u \in Users, p \in Permissions : since'[u][p] <= since[u][p]
      /\ \A u \in Users, p \in Permissions : since'[u][p] \in Nat /\ since[u][p] \in Nat
      /\ GrantedIsNow'
  BY ObserveRejuvenates DEF IInv, TypeOK
<1>2. EntriesAreDated'
  BY <1>1 DEF IInv, TypeOK, EntriesAreDated, Live, Entries
<1>3. HandlersAreDated'
  <2> SUFFICES ASSUME NEW r \in Requests
      PROVE /\ pc'[r] \in {"miss", "fetched", "answered"} => \E u \in Users : who'[r] = {u}
            /\ pc'[r] = "fetched" => \A u \in who'[r] : \A p \in found'[r] : since'[u][p] = 0
            /\ pc'[r] = "answered" => \A u \in who'[r] : \A p \in found'[r] : since'[u][p] <= CacheTTL
    BY DEF HandlersAreDated
  <2>1. who[r] \subseteq Users /\ found[r] \subseteq Permissions
    BY DEF IInv, TypeOK
  <2> QED BY <1>1, <2>1 DEF IInv, HandlersAreDated
<1>4. TokensAreDated'
  BY <1>1 DEF IInv, TypeOK, TokensAreDated
<1> QED BY <1>1, <1>2, <1>3, <1>4 DEF IInv

LEMMA StepIInv == IInv /\ [Next]_vars => IInv'
<1> SUFFICES ASSUME IInv, [Next]_vars PROVE IInv'
  OBVIOUS
<1> USE CacheAssumption
<1>1. ASSUME NEW r \in Requests, NEW u \in Users, CacheHit(r, u) PROVE IInv'
  <2>1. TypeOK'
    BY <1>1 DEF CacheHit, IInv, TypeOK, GoTo, Live, Entries, tables
  <2>2. GrantedIsNow'
    BY <1>1 DEF CacheHit, IInv, GrantedIsNow, Granted, tables
  <2>3. EntriesAreDated'
    BY <1>1 DEF CacheHit, IInv, EntriesAreDated, Live
  <2>4. HandlersAreDated'
    <3>1. \A p \in cache[u].permissions : since[u][p] <= CacheTTL
      BY <1>1 DEF CacheHit, IInv, TypeOK, EntriesAreDated, Live, Expired, Entries
    <3>2. UNCHANGED since /\ who' = [who EXCEPT ![r] = {u}] /\ pc' = [pc EXCEPT ![r] = "answered"]
          /\ found' = [found EXCEPT ![r] = cache[u].permissions]
      BY <1>1 DEF CacheHit, GoTo
    <3>3. ASSUME NEW q \in Requests, q # r PROVE pc'[q] = pc[q] /\ who'[q] = who[q] /\ found'[q] = found[q]
      BY <3>2, <3>3 DEF IInv, TypeOK
    <3>4. pc'[r] = "answered" /\ who'[r] = {u} /\ found'[r] = cache[u].permissions
      BY <3>2 DEF IInv, TypeOK
    <3> QED BY <3>1, <3>2, <3>3, <3>4 DEF IInv, HandlersAreDated
  <2>5. TokensAreDated'
    BY <1>1 DEF CacheHit, IInv, TokensAreDated
  <2> QED BY <2>1, <2>2, <2>3, <2>4, <2>5 DEF IInv
<1>2. ASSUME NEW r \in Requests, NEW u \in Users, CacheMiss(r, u) PROVE IInv'
  <2>1. TypeOK'
    BY <1>2 DEF CacheMiss, IInv, TypeOK, GoTo, tables
  <2>2. GrantedIsNow'
    BY <1>2 DEF CacheMiss, IInv, GrantedIsNow, Granted, tables
  <2>3. EntriesAreDated'
    BY <1>2 DEF CacheMiss, IInv, EntriesAreDated, Live
  <2>4. HandlersAreDated'
    BY <1>2 DEF CacheMiss, IInv, TypeOK, HandlersAreDated, GoTo
  <2>5. TokensAreDated'
    BY <1>2 DEF CacheMiss, IInv, TokensAreDated
  <2> QED BY <2>1, <2>2, <2>3, <2>4, <2>5 DEF IInv
<1>3. ASSUME NEW r \in Requests, Query(r) PROVE IInv'
  <2>1. TypeOK'
    BY <1>3 DEF Query, IInv, TypeOK, GoTo, Granted, tables
  <2>2. GrantedIsNow'
    BY <1>3 DEF Query, IInv, GrantedIsNow, Granted, tables
  <2>3. EntriesAreDated'
    BY <1>3 DEF Query, IInv, EntriesAreDated, Live
  <2>4. HandlersAreDated'
    <3>1. PICK u \in Users : who[r] = {u}
      BY <1>3 DEF Query, GoTo, IInv, HandlersAreDated
    <3>2. UNCHANGED <<since, who>> /\ pc' = [pc EXCEPT ![r] = "fetched"] /\ found' = [found EXCEPT ![r] = Granted(u)]
      BY <1>3, <3>1 DEF Query, GoTo
    <3>3. ASSUME NEW q \in Requests, q # r PROVE pc'[q] = pc[q] /\ found'[q] = found[q]
      BY <3>2, <3>3 DEF IInv, TypeOK
    <3>4. pc'[r] = "fetched" /\ found'[r] = Granted(u)
      BY <3>2 DEF IInv, TypeOK
    <3>5. \A p \in Granted(u) : since[u][p] = 0
      BY DEF IInv, GrantedIsNow
    <3> QED BY <3>1, <3>2, <3>3, <3>4, <3>5 DEF IInv, HandlersAreDated
  <2>5. TokensAreDated'
    BY <1>3 DEF Query, IInv, TokensAreDated
  <2> QED BY <2>1, <2>2, <2>3, <2>4, <2>5 DEF IInv
<1>4. ASSUME NEW r \in Requests, Fill(r) PROVE IInv'
  <2>1. TypeOK'
    BY <1>4 DEF Fill, IInv, TypeOK, GoTo, Entries, tables
  <2>2. GrantedIsNow'
    BY <1>4 DEF Fill, IInv, GrantedIsNow, Granted, tables
  <2>3. EntriesAreDated'
    <3>1. UNCHANGED since /\ \A u \in who[r] : \A p \in found[r] : since[u][p] = 0
      BY <1>4 DEF Fill, GoTo, IInv, HandlersAreDated
    <3>2. ASSUME NEW u \in Users, u \in who[r]
          PROVE  cache'[u].permissions = found[r] /\ cache'[u].age = 0
      BY <1>4, <3>2 DEF Fill
    <3>3. ASSUME NEW u \in Users, u \notin who[r] PROVE cache'[u] = cache[u]
      BY <1>4, <3>3 DEF Fill
    <3> QED BY <3>1, <3>2, <3>3 DEF IInv, EntriesAreDated, Live, Expired
  <2>4. HandlersAreDated'
    BY <1>4 DEF Fill, IInv, HandlersAreDated, GoTo
  <2>5. TokensAreDated'
    BY <1>4 DEF Fill, IInv, TokensAreDated
  <2> QED BY <2>1, <2>2, <2>3, <2>4, <2>5 DEF IInv
<1>5. ASSUME NEW r \in Requests, IssueToken(r) PROVE IInv'
  <2>1. TypeOK'
    BY <1>5 DEF IssueToken, IInv, TypeOK, End, tables
  <2>2. GrantedIsNow'
    BY <1>5 DEF IssueToken, IInv, GrantedIsNow, Granted, tables
  <2>3. EntriesAreDated'
    BY <1>5 DEF IssueToken, IInv, EntriesAreDated, Live
  <2>4. HandlersAreDated'
    BY <1>5 DEF IssueToken, IInv, TypeOK, HandlersAreDated, End
  <2>5. TokensAreDated'
    <3>1. UNCHANGED since /\ \A u \in who[r] : \A p \in found[r] : since[u][p] <= CacheTTL
      BY <1>5 DEF IssueToken, IInv, HandlersAreDated
    <3>2. ASSUME NEW t \in tokens', t \notin tokens
          PROVE  t.user \in who[r] /\ t.permissions = found[r] /\ t.left = TokenTTL
      BY <1>5, <3>2 DEF IssueToken
    <3> QED BY <3>1, <3>2 DEF IInv, TokensAreDated
  <2> QED BY <2>1, <2>2, <2>3, <2>4, <2>5 DEF IInv
<1>6. ASSUME NEW r \in Requests, NEW u \in Users, NEW x \in Roles, AssignRole(r, u, x) PROVE IInv'
  <2>1. Observe /\ UNCHANGED <<cache, tokens, found>>
    BY <1>6 DEF AssignRole, handlers
  <2>2. TypeOK'
    BY <1>6, <2>1, ObserveRejuvenates DEF AssignRole, IInv, TypeOK, GoTo
  <2>3. \A q \in Requests : pc'[q] \in {"miss", "fetched", "answered"} => pc'[q] = pc[q] /\ who'[q] = who[q]
    BY <1>6 DEF AssignRole, IInv, GoTo
  <2> QED BY <2>1, <2>2, <2>3, ChangeKeepsDates
<1>7. ASSUME NEW r \in Requests, NEW u \in Users, NEW x \in Roles, RemoveRole(r, u, x) PROVE IInv'
  <2>1. Observe /\ UNCHANGED <<cache, tokens, found>>
    BY <1>7 DEF RemoveRole, handlers
  <2>2. TypeOK'
    BY <1>7, <2>1, ObserveRejuvenates DEF RemoveRole, IInv, TypeOK, GoTo
  <2>3. \A q \in Requests : pc'[q] \in {"miss", "fetched", "answered"} => pc'[q] = pc[q] /\ who'[q] = who[q]
    BY <1>7 DEF RemoveRole, IInv, GoTo
  <2> QED BY <2>1, <2>2, <2>3, ChangeKeepsDates
<1>8. ASSUME NEW r \in Requests, NEW x \in Roles, DeleteRoleRead(r, x) PROVE IInv'
  <2>1. TypeOK'
    BY <1>8 DEF DeleteRoleRead, IInv, TypeOK, GoTo, tables
  <2>2. GrantedIsNow'
    BY <1>8 DEF DeleteRoleRead, IInv, GrantedIsNow, Granted, tables
  <2>3. EntriesAreDated'
    BY <1>8 DEF DeleteRoleRead, IInv, EntriesAreDated, Live
  <2>4. HandlersAreDated'
    BY <1>8 DEF DeleteRoleRead, IInv, HandlersAreDated, GoTo
  <2>5. TokensAreDated'
    BY <1>8 DEF DeleteRoleRead, IInv, TokensAreDated
  <2> QED BY <2>1, <2>2, <2>3, <2>4, <2>5 DEF IInv
<1>9. ASSUME NEW r \in Requests, DeleteRole(r) PROVE IInv'
  <2>1. Observe /\ UNCHANGED <<cache, tokens, found>>
    BY <1>9 DEF DeleteRole, handlers
  <2>2. TypeOK'
    BY <1>9, <2>1, ObserveRejuvenates DEF DeleteRole, IInv, TypeOK, GoTo
  <2>3. \A q \in Requests : pc'[q] \in {"miss", "fetched", "answered"} => pc'[q] = pc[q] /\ who'[q] = who[q]
    BY <1>9 DEF DeleteRole, IInv, GoTo
  <2> QED BY <2>1, <2>2, <2>3, ChangeKeepsDates
<1>10. ASSUME NEW r \in Requests, NEW u \in Users, Invalidate(r, u) PROVE IInv'
  <2>1. TypeOK'
    BY <1>10 DEF Invalidate, IInv, TypeOK, tables
  <2>2. GrantedIsNow'
    BY <1>10 DEF Invalidate, IInv, GrantedIsNow, Granted, tables
  <2>3. EntriesAreDated'
    BY <1>10 DEF Invalidate, IInv, EntriesAreDated, Live
  <2>4. HandlersAreDated'
    BY <1>10 DEF Invalidate, IInv, HandlersAreDated
  <2>5. TokensAreDated'
    BY <1>10 DEF Invalidate, IInv, TokensAreDated
  <2> QED BY <2>1, <2>2, <2>3, <2>4, <2>5 DEF IInv
<1>11. ASSUME NEW r \in Requests, Invalidated(r) PROVE IInv'
  <2>1. TypeOK'
    BY <1>11 DEF Invalidated, IInv, TypeOK, End, tables
  <2>2. GrantedIsNow'
    BY <1>11 DEF Invalidated, IInv, GrantedIsNow, Granted, tables
  <2>3. EntriesAreDated'
    BY <1>11 DEF Invalidated, IInv, EntriesAreDated, Live
  <2>4. HandlersAreDated'
    BY <1>11 DEF Invalidated, IInv, HandlersAreDated, End
  <2>5. TokensAreDated'
    BY <1>11 DEF Invalidated, IInv, TokensAreDated
  <2> QED BY <2>1, <2>2, <2>3, <2>4, <2>5 DEF IInv
<1>12. ASSUME NEW x \in Roles, NEW ps \in SUBSET Permissions, ChangePermissions(x, ps) PROVE IInv'
  <2>1. Observe /\ UNCHANGED <<cache, tokens, found>>
    BY <1>12 DEF ChangePermissions, handlers
  <2>2. TypeOK'
    BY <1>12, <2>1, ObserveRejuvenates DEF ChangePermissions, IInv, TypeOK, handlers
  <2>3. \A q \in Requests : pc'[q] \in {"miss", "fetched", "answered"} => pc'[q] = pc[q] /\ who'[q] = who[q]
    BY <1>12 DEF ChangePermissions, IInv, handlers
  <2> QED BY <2>1, <2>2, <2>3, ChangeKeepsDates
<1>13. ASSUME NEW p \in Permissions, DeletePermission(p) PROVE IInv'
  <2>1. Observe /\ UNCHANGED <<cache, tokens, found>>
    BY <1>13 DEF DeletePermission, handlers
  <2>2. TypeOK'
    BY <1>13, <2>1, ObserveRejuvenates DEF DeletePermission, IInv, TypeOK, handlers
  <2>3. \A q \in Requests : pc'[q] \in {"miss", "fetched", "answered"} => pc'[q] = pc[q] /\ who'[q] = who[q]
    BY <1>13 DEF DeletePermission, IInv, handlers
  <2> QED BY <2>1, <2>2, <2>3, ChangeKeepsDates
<1>14. ASSUME NEW r \in Requests, Drop(r) PROVE IInv'
  <2>1. TypeOK'
    BY <1>14 DEF Drop, IInv, TypeOK, End, tables
  <2>2. GrantedIsNow'
    BY <1>14 DEF Drop, IInv, GrantedIsNow, Granted, tables
  <2>3. EntriesAreDated'
    BY <1>14 DEF Drop, IInv, EntriesAreDated, Live
  <2>4. HandlersAreDated'
    BY <1>14 DEF Drop, IInv, TypeOK, HandlersAreDated, End
  <2>5. TokensAreDated'
    BY <1>14 DEF Drop, IInv, TokensAreDated
  <2> QED BY <2>1, <2>2, <2>3, <2>4, <2>5 DEF IInv
<1>15. ASSUME Crash PROVE IInv'
  <2>1. TypeOK'
    BY <1>15 DEF Crash, IInv, TypeOK, tables
  <2>2. GrantedIsNow'
    BY <1>15 DEF Crash, IInv, GrantedIsNow, Granted, tables
  <2>3. EntriesAreDated'
    BY <1>15 DEF Crash, IInv, EntriesAreDated, Live
  <2>4. HandlersAreDated'
    BY <1>15 DEF Crash, IInv, HandlersAreDated
  <2>5. TokensAreDated'
    BY <1>15 DEF Crash, IInv, TokensAreDated
  <2> QED BY <2>1, <2>2, <2>3, <2>4, <2>5 DEF IInv
<1>16. ASSUME Tick PROVE IInv'
  <2>1. TypeOK'
    <3>1. cache' \in [Users -> Entries \union {NoEntry}]
      <4> SUFFICES ASSUME NEW u \in Users, cache[u] # NoEntry
                   PROVE  [cache[u] EXCEPT !.age = Least(@ + 1, CacheTTL + 1)] \in Entries
        BY <1>16 DEF Tick, IInv
      <4>1. cache[u] \in Entries
        BY DEF IInv, TypeOK
      <4> QED BY <4>1 DEF Entries, Least
    <3>2. tokens' \subseteq [user : Users, permissions : SUBSET Permissions, left : 0..TokenTTL]
      <4> SUFFICES ASSUME NEW t \in tokens, t.left > 0
                   PROVE  [t EXCEPT !.left = @ - 1] \in [user : Users, permissions : SUBSET Permissions, left : 0..TokenTTL]
        BY <1>16 DEF Tick
      <4>1. t \in [user : Users, permissions : SUBSET Permissions, left : 0..TokenTTL]
        BY DEF IInv, TypeOK
      <4> QED BY <4>1
    <3>3. since' \in [Users -> [Permissions -> 0..(CacheTTL + TokenTTL + 1)]]
      BY <1>16 DEF Tick, IInv, TypeOK, Least
    <3> QED BY <1>16, <3>1, <3>2, <3>3 DEF Tick, IInv, TypeOK, tables, handlers
  <2>2. GrantedIsNow'
    BY <1>16 DEF Tick, IInv, GrantedIsNow, Granted, tables, HandlersAreQuick, Least
  <2>3. EntriesAreDated'
    <3> SUFFICES ASSUME NEW u \in Users, Live(u)', NEW p \in cache'[u].permissions
                 PROVE  since'[u][p] <= cache'[u].age
      BY DEF EntriesAreDated
    <3>1. cache[u] # NoEntry /\ cache[u] \in Entries
      BY <1>16 DEF Tick, IInv, TypeOK, Live
    <3>2. cache'[u] = [cache[u] EXCEPT !.age = Least(@ + 1, CacheTTL + 1)]
      BY <1>16, <3>1 DEF Tick
    <3>3. /\ cache'[u].age = Least(cache[u].age + 1, CacheTTL + 1)
          /\ cache'[u].permissions = cache[u].permissions
          /\ cache[u].age \in Nat /\ p \in Permissions
      BY <3>1, <3>2 DEF Entries
    <3>4. cache'[u].age = cache[u].age + 1 /\ cache[u].age <= CacheTTL
      BY <3>3 DEF Live, Expired, Least
    <3>5. since[u][p] <= cache[u].age
      BY <3>1, <3>3, <3>4 DEF IInv, EntriesAreDated, Live, Expired
    <3>6. since[u][p] \in Nat /\ since'[u][p] \in Nat /\ since'[u][p] <= since[u][p] + 1
      BY <1>16, <3>3 DEF Tick, IInv, TypeOK, Least
    <3> QED BY <3>3, <3>4, <3>5, <3>6
  <2>4. HandlersAreDated'
    BY <1>16 DEF Tick, IInv, HandlersAreDated, handlers, HandlersAreQuick, Least
  <2>5. TokensAreDated'
    <3> SUFFICES ASSUME NEW s \in tokens, s.left > 0, NEW p \in s.permissions
                 PROVE  since'[s.user][p] <= CacheTTL + TokenTTL - (s.left - 1)
      <4>1. ASSUME NEW t \in tokens' PROVE \E s \in tokens : s.left > 0 /\ t = [s EXCEPT !.left = @ - 1]
        BY <1>16 DEF Tick
      <4>2. \A s \in tokens : s \in [user : Users, permissions : SUBSET Permissions, left : 0..TokenTTL]
        BY DEF IInv, TypeOK
      <4> QED BY <4>1, <4>2 DEF TokensAreDated
    <3>1. s \in [user : Users, permissions : SUBSET Permissions, left : 0..TokenTTL]
      BY DEF IInv, TypeOK
    <3>2. since[s.user][p] <= CacheTTL + TokenTTL - s.left
      BY DEF IInv, TokensAreDated
    <3>3. since[s.user][p] \in Nat /\ since'[s.user][p] \in Nat /\ since'[s.user][p] <= since[s.user][p] + 1
      BY <1>16, <3>1 DEF Tick, IInv, TypeOK, Least
    <3> QED BY <3>1, <3>2, <3>3
  <2> QED BY <2>1, <2>2, <2>3, <2>4, <2>5 DEF IInv
<1>17. CASE UNCHANGED vars
  BY <1>17 DEF vars, tables, handlers, IInv, TypeOK, GrantedIsNow, EntriesAreDated, HandlersAreDated, TokensAreDated, Granted, Live
<1> QED BY <1>1, <1>2, <1>3, <1>4, <1>5, <1>6, <1>7, <1>8, <1>9, <1>10, <1>11, <1>12, <1>13, <1>14, <1>15, <1>16, <1>17 DEF Next

THEOREM Invariance == Spec => []IInv
<1> QED BY InitIInv, StepIInv, PTL DEF Spec

\* The tables, the cache, the tokens and the handlers keep their types.
THEOREM TypeCorrect == Spec => []TypeOK
<1>1. IInv => TypeOK
  BY DEF IInv
<1> QED BY <1>1, Invariance, PTL

\* The cache never serves a permission lost longer ago than an entry lives,
\* although several changes never invalidate it and a fill may race with an
\* invalidation.
THEOREM CacheIsBoundedlyStale == Spec => []CacheStalenessBounded
<1>1. IInv => CacheStalenessBounded
  BY CacheAssumption DEF IInv, TypeOK, EntriesAreDated, CacheStalenessBounded, Live, Expired, Entries
<1> QED BY <1>1, Invariance, PTL

\* A removed permission is out of every accepted token after the lifetime of
\* a cache entry plus that of a token.
THEOREM TokensAreBoundedlyStale == Spec => []TokenStalenessBounded
<1>1. IInv => TokenStalenessBounded
  BY CacheAssumption DEF IInv, TypeOK, TokensAreDated, TokenStalenessBounded
<1> QED BY <1>1, Invariance, PTL
=============================================================================
