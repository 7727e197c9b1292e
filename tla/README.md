# A verification project for ts-next

TLA+ modules, TLC configurations and TLAPS proofs about the programs of this
repository: the OAuth 2.1 service and the reverse proxy written in Rust, the
admin portal's API client, the WebSocket server for K-line data, and the chart
that draws them. Paths below are relative to the repository; `OS/` stands for
`apps/oauth-service-rust/crates/oauth-service/src/`, `WS/` for
`apps/ws-kline-service/src/`, `API/` for `apps/admin-portal/lib/api/`, `WASM/`
for `apps/kline-service/wasm-cal/src/` and `PX/` for `apps/pingora-proxy/src/`.

To check a module by model checking: `tlc -config Account.cfg MCUserAccount.tla`.
To check a proof: `tlapm SignInProofs.tla`. `PROJECT.json` lists every
run, mutant, mapped definition, hazard and theorem.

## 1. Inventory

### OAuth service (`OS/`, axum + tokio + sqlx on SQLite)

Every HTTP request is an async task. Tasks meet in the database, in two
in-memory structures (permission cache, rate limiters), and nowhere else; they
interleave at every `await`. A task can be dropped at any await (client gone,
error), and the process can restart; only SQLite survives. SQLite allows one
write transaction at a time, and a transaction that has read before another
one committed can no longer write (`SQLITE_BUSY_SNAPSHOT`).

| Component | State | Operations | What makes it hard | What makes it correct |
|---|---|---|---|---|
| Token service (`services/token_service.rs`, `utils/jwt.rs`) | tables `refresh_tokens`, `token_blacklist`; the tokens clients hold | issue, refresh, revoke, introspect | the check of a row is outside the transaction that revokes it; revocation is two statements; expiry against leeway | rotation is atomic, no session is lost half-way, an acknowledged revocation holds |
| Authorization codes (`services/auth_code_service.rs`, `routes/oauth.rs`) | table `auth_codes` | create, find-and-consume, PKCE and client checks, grant | two requests with one code; failures after the code is consumed; commit conflicts | a code yields tokens once, to its owner only |
| Authorize, login, consent (`routes/{oauth,consent,templates}.rs`, `utils/validation.rs`) | cookie, sessions, codes, the pages of the tabs | authorize, login, consent page and forms, callback, token request | three handlers and two kinds of page share a cookie; checks and their use are awaits apart | a code only for what its user agreed to, and to a registered URI and scope |
| User accounts (`services/user_service.rs`) | a user's row | create, authenticate, update, soft delete | read, compute, write back without a transaction | failures lock the account, locks end, deleted stays deleted |
| Roles, permissions and their cache (`services/{rbac,role,permission}_service.rs`, `cache/permission_cache.rs`) | three tables, a TTL cache, the permissions inside tokens | look up, assign, remove, delete | lookups race with invalidations; some changes invalidate nothing | how stale a permission can be at most |
| Administration (`routes/{users,roles,permissions,clients,audit_logs}.rs` and their services) | the tables and their references | create, read, list, update, delete, grant, assign; audit pages | one statement per step with other administrators in between; failing reads pass for empty | references have their rows, counted pages have rows |
| Start-up (`main.rs`, `db.rs`, `migrations/`) | the same tables | migrations, seeding, serving | no ledger and no transaction: the process may end between any two statements, and every start runs all of them again | starts only add, and come through |
| Rate limiters (`middleware/{rate_limit,login_rate_limit}.rs`) | key -> instants | check, count the rest, clean up | the clock is read before the lock is taken | no window exceeds the limit, refusals are justified |
| Middleware stack (`app.rs`, `middleware/{auth,permission,audit,security_headers}.rs`) | per request: caller, answer, audit | five layers and a router | layers run in reverse order of declaration; the permission table is an unordered map; tokens are rotated and keys replaced meanwhile | who reaches a handler, nobody is refused without a cause |
| Settings and keys (`config.rs`, `utils/jwt.rs`) | settings read once, key files read at every use | read the environment, sign, verify | files and settings change at different moments; two algorithms | who accepts which token |
| Database pool (`state.rs`) | 10 connections | acquire | a transaction that needs a second connection | not modelled |

Interactions: the middleware asks the token service (`introspect_token`) who
calls and trusts the permissions *in the token*, which the token endpoint read
from the RBAC service, which may have read them from the cache. The token
endpoint turns a code into a token pair. Start-up and administration fill the
tables everything else reads. Nothing calls back.

### Reverse proxy (`PX/`, Pingora)

State: the settings, validated once; a fixed-window counter per client and
service behind a lock; a turn per backend; the watcher of the configuration
file. Operations: start, request filter, choice of the upstream, watcher events.
Threads run requests at once. Correct: what was validated never fails a
request, the counter's bound, fair turns, changes are reported.

### Admin portal's API client (`API/`, TypeScript in a browser)

Each resource class builds its own chain Cache -> CircuitBreaker -> Retry ->
RequestDedup -> Auth -> Base; all chains and tabs share two tokens in
`localStorage`. One thread per tab, callbacks interleave at every `await` on the
network or a timer. Hard: answers that come after a timer has forgotten their
request, several 401s while a refresh is under way, retries that meet a settled
promise, a breaker that sees late results. Correct: answers are recent, calls
are shut out for cause, one client keeps the session, whoever waits is waited
for.

### K-line WebSocket server (`WS/`, Node, uWebSockets.js)

State: the connections, the subscriptions in two indexes (client -> topics,
topic -> clients), one interval timer per topic, two counters that number
packets, and a cache of the packets by number. Operations: open, subscribe,
unsubscribe, close (by the client, the heartbeat or an idle socket), timer
tick, range request. One thread, and no handler awaits, so a callback is one
step; what is hard is the *order* of legal messages and closes. Correct: the
indexes agree, every subscriber is fed, the cache is bounded, idle jobs stop.

### K-line chart (`WASM/`, Rust in a web worker)

State: candles in two parts with an index by time, the visible range, cached
extremes and a heat-map index, the layout, three layers with dirty flags, mouse
and drag. Operations: canvases, append and merge, mouse, wheel, mode, resize,
configuration, draw. One thread; what is hard is that every call must keep four
kinds of derived state and the picture in step. Correct: the range lies within
the data, caches agree with it, drags and cursor tell the truth, what changed
is painted.

### The rest

React pages and server actions of the portal, UI and configuration packages,
data-type crates, the Next.js shell of the chart, deployment files, and the
unused old copy `apps/oauth-service-rust/src` have no behaviour worth a model.

## 2. Modules

Conventions: a component has one module with its CONSTANTS (each with a named
assumption), VARIABLES named after the code's columns and fields, `Init`, one
action per stretch of code between two points at which others may run, and its
properties at the end. `MCx` instantiates `x` for TLC; the theorems stand in
modules `...Proofs`, of which some are about two components: there the names of
one of them have a prefix (`FlowInit`, `ProxySpec`, `ChartTypeOK`). A definition whose comment begins with "Mutant of" is a plausible
bug, used to show that each property notices one. History variables are marked
"history": the code has no such state and no guard reads them.

**TokenService**, abstract: **RotationPromise.** A request has a control state
`pc`; `RefreshLoad` is the check on the pool, `RefreshBegin`, `RefreshIssue`,
`RefreshCommit` the transaction, `RevokeList` and `RevokeMark` the two
statements of a revocation, `IntrospectList` and `IntrospectRow` the two reads
of an introspection, `Reply` the response. `Drop` and `Crash` end handlers
anywhere: an open transaction rolls back, committed statements stay. The write
lock is `dbWriter`. A token pair stands for both JWTs. `RotationPromise` says
what a client may rely on: a rotation spends a token and creates its successor
in one step, and nothing else spends a token that nobody asked to revoke.

**AuthCode**, abstract: **OneShotCode.** `ReadCode`, `MarkUsed` and `CommitUsed`
are the deferred transaction of `find_and_consume_code`, with SQLite's
snapshot rule in `Commit`; `Grant` is everything the handler checks afterwards;
`Fail` and `Crash` end it anywhere. A consumed code has exactly one fate: one
request still holds it, it has yielded tokens once, or a request that failed
has spoilt it. The abstract code is fresh, then spent,
then perhaps redeemed, once.

**AuthorizeFlow.** The browser's side and the server's side of the way to a code:
a tab is at a place (`at`), handlers take one step per await, `jar` is the
cookie the tabs share. `Authorize`, `SubmitLogin`, `OpenSession`, `ConsentInfo`,
`ConsentPage`, `SubmitConsent`, `ConsentForm`, `Submit`, `CreateCode` and
`GrantToken` are the handlers' stretches; administrators and expiry act in
between. Validation is what `utils/validation.rs` decides about sets of URIs
and scopes. `allowed` is the history of what users agreed to.

**UserAccount.** One row (rows do not interact). `LoginRead` and
`LoginWrong`/`LoginRight` are `authenticate`'s SELECT and UPDATE, `UpdateRead`
and `UpdateWrite` those of `update_user`. The clock is relative (`lock_left`).

**PermissionCache.** `CacheHit`, `CacheMiss`, `Query`, `Fill` are
`get_user_permissions`; the changes of roles and permissions invalidate what
the code invalidates and nothing else. Ages are relative to now; `since`
remembers for how long a user has been without a permission. A tick happens
only when no handler sits on permissions it has read: handlers take
milliseconds, the lifetimes are minutes.

**Administration**, and **StartUp**, which extends it. `table`, `roleGrants`
and `members` are the tables with their UNIQUE and FOREIGN KEY constraints; each
service method is one action per statement outside a transaction. `Boot` runs
one statement of the migrations or of `db.rs`'s seeding at a time, `Quit` ends
the process between any two, and requests are served only afterwards. The
migrations are abridged to a row of each sort. Audit pages are sizes, with
32-bit offsets modulo a constant.

**RateLimiter.** `ReadClock` and the decision under the lock are two steps, with
at most `MaxDelay` in between; one module serves the three limiters, which
share the code's shape and differ in limit and window.

**SigningKeys** (operators) and **AccessControl**, which extends it. The layers
as control states, the real permission table, routes, methods and both lists of
public paths, and `path_matches` on paths as sequences of segments. Which row an
unordered map yields first is an `\E`. Tokens are signed by the service itself
at its endpoints and verified with whatever key the files hold then; key files
are replaced and the process is restarted under another environment. `Refresh`
ends the token it is given in the step that issues its successors, as the
code's transaction does; of the tokens an answer carries at most one is
followed.

**Proxy.** `Load`, `StartWatcher`, `Serve` are `main`; `RequestFilter`,
`AskLimiter`, `SelectPeer`, `Finish` a request; the file system's events are
queued and taken by `HandleEvent`. The wall clock may be put back. What Pingora
does after `request_filter` answers `Ok(true)` is the constant `TrueMeansGoOn`:
the code's comment takes it for "continue", which the run assumes.

**ApiClient.** A call is what a page asks of a client, a flight one pass through
the two innermost decorators. An action is what runs between two awaits:
`Send` through the cache, the breaker, the retry loop and the pending requests;
an answer, a 401 with or without a refresh under way, the end of a refresh
and of the second fetch; timers. An answer is known by the time it was asked.

**KlineFeed.** A callback is a step. `Cached` is `cacheData` with its eviction,
`Publish` the timer tick with broadcast and back-pressure, `Restart` the
process.

**ChartLayout, ChartData, ChartPainters, Chart**, each extending the one before.
ChartLayout is the layout engine, box by box over the template as a recursive
function, once for every mode and size; ChartData the data manager, a method being an operator from manager to manager; ChartPainters says
of every renderer what it reads, so that equal pictures are drawn alike; Chart is
the calls of the worker, one step each. Numbers are integers: prices in
twentieths, positions multiplied out.

## 3. Runs

| Run | Question | Bounds | Result |
|---|---|---|---|
| `token` | what an acknowledged revocation guarantees; every step refines RotationPromise | 2 requests, 2 pairs, 3 instants, every operation | holds, 2.8M states |
| `auth_code` | one fate for every consumed code, refinement of OneShotCode | 3 requests, 2 codes, 2 clients, 2 verifiers | holds, 173k states |
| `authorize` | every code has its reason and its registration, late requests get none, journeys end | 2 tabs, 2 users, 2 clients, 2 sessions, 2 codes, 1 change | holds, 552k states |
| `account` | lockout, soft delete, the cost of overlapping, every lock ends | 3 requests, limit 3, lock 2 | holds, 129k states |
| `cache_staleness` | how stale tokens' permissions can be | 2 requests, 1 user, 2 roles, TTLs 2 and 1 | holds, 129k states |
| `start_up` | nothing half there, starts only add and come through, audit pages | 2 administrators, 2 requests, 3 starts, 2 ends | holds, 507k states |
| `limiter` | the limit in every window, justified refusals | 5 calls, 2 keys, limit 2, window 3, delay 1 | holds, 1.1M states |
| `access` | who reaches handlers, who is refused and for which cause | 1 request, 1 token followed, 6 methods, every route, 4 environments, 2 key files | holds, 964k states |
| `proxy` | validated settings serve, twice the limit, fair turns, changes told | 2 requests at once, 4 in all, 3 instants, 6 configurations, 1 edit | holds, 1.8M states |
| `api_client` | recent answers, shut out for cause, session kept, nobody waits in vain | 2 clients, 3 calls, 2 attempts, threshold 2, 3 instants | holds, 1.6M states |
| `feed` | indexes, jobs | 2 clients, 2 topics, 3 numbers per counter, cache of 2 | holds, 341k states |
| `chart` | range, caches, drags, cursor, painting | 4 calls of any sort, 0 or 6 candles and 2 later, 4 canvases, 6 points | holds, 259k states |

Why the bounds are enough. With two requests every pairwise interleaving of two
operations occurs; a third adds a lost update of three writers in `account` and
a bystander in `auth_code`. A lock of two ticks has a first, a middle and a last
moment; windows, TTLs and delays are chosen so that just before, at, and just
after the end all occur. In `access` requests share nothing but the keys and
the ended tokens, and tokens share nothing at all, so one request and one token
see everything: the rotation of another token is a step that issues none that
is followed. In `authorize` one tab uses
the portal's page and the other the service's own, one client wants consent and
one does not, and queries are proper or wrong in each of the checked ways. In
`start_up` two ends leave two starts cut short anywhere and one that comes
through, and administrators may choose names of seeded rows. In
`api_client` three calls are an owner, one that joins it and one that comes
after; a threshold of two is reached, and missed by one. In `chart` the
thresholds (5, 10, 50, 300 in the code) are made small enough for six candles
to be on both sides of each, one candle later replaces, one adds, two come
unordered, and one canvas has no height; four calls are press, move, another
call and move. Deadlock is checked in `account`, `cache_staleness`, `chart` and
`feed`; elsewhere the bounds themselves make the system stop: codes, calls, token
pairs, edits or time run out.

Fairness. `LockEnds` assumes `WF(Tick)`, that time passes, and no handler to
run. `ChangesAreTold` assumes that the watcher's task takes its events
(`WF(HandleEvent)`). `StartsUnlessConflicted` assumes that a start goes on
(`WF(Boot)`); the ends of the process are bounded, without which it could end
for ever. `JourneysSucceed` assumes that handlers, pages and the user's decision
are not put off for ever, and that a user who signs in again and again
eventually types the right password (`SF`: after a wrong one the page is there
again, so that the step is enabled only repeatedly).

`GuessesAreBounded` states the exact price of the unprotected counter: with a
limit of `m` and `n` overlapping logins, C(m+n, n) - 1 wrong passwords can be
tried before the account is locked (19 for three requests and a limit of
three), because each request in flight carries a count it has read and a
late write moves the counter back to it.

The type invariants of the modules without theorems are statements about the
model for its reader and are not part of the runs, where they would only slow
them; those of the others are theorems.

## 4. What the code does differently from what is said of it

Seen while modelling; where a property depends on it, the property states the
form that holds and names the exception.

Tokens and keys
- `refresh_token` reads `is_revoked` on the pool and revokes by id without
  looking again, so two concurrent requests both rotate one token
  (`OS/services/token_service.rs:310`); a test calls this "one-time use"
  (`tests/oauth_complete_flow_tests.rs:159`).
- A blacklist row lives 3600 s from the revocation, an access token verifies
  until 3660 s after its issue; revoked at once, it is active again at the end.
  `AcknowledgedRevocationHolds` names exactly this exception. With the hint
  `access_token` a refresh token is only blacklisted, which `refresh_token` does
  not look at: `NoRotationAfterRevocation` is about the right hint. And a second
  revocation, with the right hint, then fails on the UNIQUE `jti` before it marks
  the row (`token_service.rs:438`): it is not acknowledged, so that the property
  says nothing of it, and the token goes on rotating.
- `verify_token` accepts HS256 only, although RS256 can be configured "for
  production" (`config.rs:33`): a service so configured answers 401 to every
  token it issues. `RefusedForCause` names this as its one exception. An unknown algorithm means
  HS256, whose secret is then the text of the private key file.
- `/oauth/revoke` checks the token with the rule for authorization codes
  (`routes/oauth.rs:566`), so no issued token is ever revoked through it
  (`RevokeEndpoint` with `ValidAuthCode`); the comment above the check says
  "Validate token is not empty". Of all endpoints only a refresh grant ends a
  token.

Authorisation and accounts
- Failures that overlap are lost, and an update that read the row before a
  deletion writes `is_active = TRUE` back. `FailuresLock` and
  `DeletedStaysInactive` therefore carry the condition `~overlapped`.
- A lookup that has read the database fills the cache after
  `remove_role_from_user` invalidated it: "immediately" (`role_service.rs:459`)
  is up to five minutes. Changes to a role's permissions invalidate nothing.
- A request no row of the permission table applies to passes
  (`permission.rs:179`), e.g. `/api/v2/admin/audit-logs`; `auth.rs:30` promises
  denial by default. `PermissionsDecide` is about the requests some row applies
  to. What the layers in front answer is neither audited nor given security
  headers, although `audit.rs:83` speaks of all HTTP requests and
  `security_headers.rs:2` and `app.rs:141` of all responses; no property is about
  either. A preflight to a protected path is answered 401.
- The consent endpoints and the service's own consent page want a bearer token
  (`auth.rs:62`), `consent.rs:96` speaks of the session cookie. The page's form
  offers "approve" and hands it to a function that accepts "allow"
  (`templates.rs:324`, `consent.rs:269`). `authorize` drops `state`
  (`oauth.rs:421`).
- `PUT` of a client cannot succeed, and `role_service.rs:155` says at most 100
  rows, but a negative limit returns all.
- The migrations' grants name ids: after a seeded role is deleted and one of its
  name created, no start comes through. What an administrator takes from a
  seeded role comes back at the next start.

Proxy
- `request_filter` answers `Ok(true)` with the comment "continue"
  (`proxy/mod.rs:106`). No `X-Forwarded-For` is set, so that the service's
  limiter sees all proxied clients as one. "triggers reloads"
  (`config_watcher.rs:2`) is a line in the log; a change between the reading of
  the file and the start of the watch is not even that. The TLS version is
  validated and not applied; health checks are built and not run.

API client
- The breaker counts 4xx and network errors, never 5xx, 429 or timeouts; when
  HALF_OPEN it admits every call (its comment says one), and a late success
  closes it when open. Timeouts carry status 408, which is not retried. A
  failed flight that was shared leaves its rejected promise to serve the
  retries until the timeout.
- Answers of every method are cached: an update repeated within five minutes
  is never sent. The refresh fetch has no timeout, and a refresh that fails in
  one client clears tokens that another has just stored (`troubled` in the
  model).

K-line
- Snapshots and updates are numbered by two counters and kept in one cache, so
  one number names two packets.
  A client that disconnects without unsubscribing leaves its topic's job running
  (`OnlyClosingIdlesJobs` says that nothing else does).
- The wheel over the navigator changes the range but marks no layer; data that
  only replaces candles, and a new theme, are not painted; the order book's cache
  knows only candle and range; a zoom out beyond 80 % of the candles shrinks the range; a
  drag whose range ends before the fifth candle wraps round. `EveryChangeIsPainted`
  and `DragKeepsTheOtherEdge` say what holds.

## 5. Proofs

All theorems hold for every value of the constants that satisfies the named
assumptions: lifetimes and limits are natural numbers, sentinels are not
members of the sets they mark, `MaxDelay < Window`, a cache size above zero.
Some of them say more. `FlowAssumption` has what a client may register and a
tab may ask for be sets of URIs and scopes; `ContentsAssumption` has every text
the proxy's file may hold parse to lists of services and backends;
`GuessAssumption` says that `GuessBound` is at least the number of ways in which
requests and counter can stand, less one. For the chart `CandlesAssumption` has
candles come in lists, `DensityAssumption` every number of them have a density,
`PointsAssumption` the mouse be at integers, and `ResizesAssumption` every canvas
be wider than the price axis by more than one unit: on a narrower one the
navigator has no width, and a drag, which divides by it, would leave the integers
(the code works in `f64` there). `SeedsAssumption` and `MigrationsAssumption` are
what can be read off `db.rs` and the migrations: the admin role is among the
seeded ones, a value is listed once, an id belongs to one client, a client's
lists come after its row, and no generated id is a seeded name.

- **TokenServiceProofs**: `TypeCorrect`; `RotationIsAtomic`,
  `RevocationIsExplained`, `HeldTokensAreCommitted`, `Refinement`. The
  invariant ties a handler's control state to the tables: only the holder of
  the write lock is inside the transaction, its child is minted but not yet a
  row, a rotated child is a row whose origin is revoked. On top of it `AckInv`
  proves `AcknowledgedRevocationsHold` and `RevokedNeverRotate`: an acknowledged
  revocation has left its row in the blacklist or its mark on the token, and no
  statement of any other request takes it away before the token expires; a
  request that had loaded the token before is accounted for by what it holds.
- **AuthCodeProofs**: `TypeCorrect`, `CodesAreRedeemedOnce`,
  `BurntCodesAreExplained`, `Refinement`. The core is that two requests cannot
  both hold a code past `CommitUsed`: the second one's snapshot is stale and its
  write fails. `HeldOrSettled` adds what becomes of the one that holds it: a code
  is consumed as long as it is held and ever after, and what its holder does next
  settles it for good.
- **SignInProofs**, about UserAccount: `TypeCorrect`, `FailuresLockTheAccount`,
  `DeletedUsersStayInactive`, `GuessesAreAlwaysBounded`. The invariant `SeqInv`
  says that, as long as nothing overlapped, at most one request is at work, the
  counter is at least the number of guesses, and what the request has read is
  still true. For the number of guesses when requests do overlap no counting of
  binomials is needed: how many requests hold each count, and the counter, is a
  *tally*; a wrong password moves the tally up in a strict order and nothing
  moves it down, so that there are never more guesses than tallies below the
  present one (`GuessInv`).
  About AuthorizeFlow: `FlowTypeCorrect`, `CodesAreAlwaysAuthorised`,
  `CodesAlwaysMatch`, `LateRequestsAreAlwaysRefused`, for any tabs, users,
  clients and sessions. `FlowInv` follows what each handler holds across its
  awaits: what was checked of a request is still what will be written, and a
  decision is the one its user made, since the cookie that others may overwrite
  in between is read only where its session is looked up again.
  About StartUp: `BootTypes`, `NothingIsEverHalfThere`,
  `CountedPagesAlwaysHaveRows`, `StartsAlwaysOnlyAdd`, for any administrators, requests, migrations, seeds and
  number of starts. `BootInv` has seven parts. The tables hold rows of their
  types (`TablesOK`) and every reference its row (`References`); what a handler
  has read of a user or a client is still there, what it has read of a role may
  be gone (`HandlersOK`). A client of the migrations has at most what they list,
  and all that they have listed in this start; any other has a name that they
  do not know and the lists an administrator registered, or the beginning of
  those of `db.rs` (`ClientsOK`), which `HalfAdded` relates to what the seeding
  has still to write. `SeedsThere` says that what a later stage looks for by its
  name has been added by an earlier one. That counted pages have rows is
  arithmetic on the offset: modulo the word it can only fall, and it was below
  the count, which does not shrink. `BootTypes` needs two more parts: no two rows
  of a table have one name (`UniqueNames`), since whoever writes a row gives it
  its own name or nobody's (`Renames`), and where the process and its requests
  stand (`Counts`).
- **PermissionCacheProofs**: `TypeCorrect`, `CacheIsBoundedlyStale`,
  `TokensAreBoundedlyStale`. What is in a handler's hands was granted when it
  was read and no tick can separate reading from storing; an entry of age `a`
  holds nothing lost longer ago than `a`.
- **RateLimiterProofs**: `TypeCorrect`, `TheLimitHolds`, `RefusalsAreJustified`.
  Every admission of a key that is younger than the window (by any clock read
  that may still come) is still recorded, so the last admission of any interval
  of length `Window - MaxDelay` saw all the others.
- **ApiClientProofs**: `TypeCorrect`, `NoVainWait`, `SessionIsKept`,
  `ShutOutsHaveCause`, `AnswersStayRecent`, for any number of clients, calls and
  attempts. `Waits` (who waits for whom) is inductive with the types: the call
  that sent a flight waits for it, a call that joined one waits for a flight of
  its own client and request, a pending entry is settled or under way, and a
  flight that awaits a refresh has one of its client that carries it. On top of
  it stand three further invariants: `Session`, as long as nothing went wrong
  outside at most one flight carries a refresh token, and it is the stored and
  good one; `Counted`, a breaker's count is at most the failures since the last
  success; `Recent`, whatever a call, a pending entry or the cache may still be
  given was asked for recently enough.
- **KlineProofs**: `TypeCorrect`, `TheIndexesAgree`, `EverySubscriberIsFed`,
  `TheCacheIsBounded`, `OnlyClosingIdles`. The cache's bound needs that a
  finite set of packets has one of least number, so that eviction removes one.
  About the chart: `CursorAlwaysTells`. `HandleInv` says that the handle the
  command manager remembers is the navigator's whenever the mouse drags; every
  call keeps it or changes both, and of the strategies that could answer the
  navigator is asked first.
  `CachesAlwaysMatch` and `ChangesAreAlwaysPainted` rest on `ChartInv`: candles
  are lists, and what is kept beside them is what would be worked out of them
  now. What a batch of candles leaves is followed candle by candle; a step of
  the recursion that fails would have a least number, which is refuted. For the
  painting the lemmas say of which fields a picture is worked out (`Alike`), and
  that whatever changes one of them ends in `handle_layout_change`, which marks
  every layer before it paints.
  `RangeAlwaysWithin` and `DragsKeepTheOtherEdge` add `RangeInv`: the range lies
  within the candles (`Ranged`), the layout is one that the engine computed for
  a canvas there is (`Sized`), and a drag goes on from a range within the candles
  of its beginning, which are all still there, on a canvas where the navigator
  has a width (`Held`). For that the engine is shown to give every pane of the
  template a rectangle of integers and the navigator the width by which a drag
  divides (`PanesOfTheTemplate`): sizes shared out among children add up, and no
  box of the template hands a child less than nothing.
- **PerimeterProofs**, about AccessControl: `AccessTypes`,
  `PermissionsAlwaysDecide`, `LateTokensAlwaysStayOut`, `RefusalsHaveCauses`,
  for any tokens, keys and requests and the real routes. `GateInv` says of every
  control state of the layers what has been established of the request by then:
  who is in the handler was let through by each of them, in the order in which
  they run. A refusal had its cause when it was given, and causes stay: an ended
  token does not come back, a key that was replaced is never put back
  (`KeysAreOld`), and nothing is signed without one (`KeysAreReal`); settings
  only change by a restart, which forgets the answers. About the proxy:
  `ProxyTypes`, `ValidatedIsAlwaysServed`, `UpstreamsAlwaysShare`,
  `NeverMoreThanTwice`. `ServeInv` carries from validation to the choice of a
  backend that every service has one; `SharesInv` counts the turns of a service
  round by round; `LimiterInv` bounds what was let through in the current window
  and in the one before, although the clock may be put back.

## 6. Only model-checked

Liveness is out of the prover's reach: `LockEnds`, `ChangesAreTold`,
`StartsUnlessConflicted`, `JourneysSucceed`. Every safety property and action
property of the runs is also a theorem.

## 7. Plan

1. The step lemmas of the liveness properties, without `ENABLED`: what no step
   undoes, and which step brings a start, a lock or a journey nearer its end.

## 8. What is not modelled

The pool of ten database connections, in which a refresh waits for a second
connection while its transaction holds one (`OS/services/token_service.rs:175`):
the waiting and its timeout are sqlx's, and the handlers are modelled with
connections enough. JWT cryptography and what claims say beyond subject, kind
and permissions, password hashing, text formats, logging, HTML, the contents of
headers, SQL beyond what a statement changes and which locks it takes, filters
of audit queries and the escaping of their export, prices, FlatBuffers (the
generated `kline_generated.rs` included), the heartbeat's timing (a close can
happen at any time), profile columns. Of the API client: instrumentation,
`staleWhileRevalidate`, the eviction of its cache storages, options per
endpoint, and resets by hand. Of the chart: the performance monitor, fonts and
strokes, event methods that nobody calls. Of the portal: pages, forms,
translations. `packages/cache` chooses between two libraries; the other
packages are styling and lint rules. `oauth-core`, `oauth-models` and
`oauth-sdk-napi` hold data types and a forwarding binding. The old copy under
`apps/oauth-service-rust/src` is not part of the build.
