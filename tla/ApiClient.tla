----------------------------- MODULE ApiClient -----------------------------
(***************************************************************************)
(* The admin portal's API client (lib/api): the chain of decorators that   *)
(* createFullFeaturedClient builds around fetch, from the outside in       *)
(*                                                                         *)
(*   cache -> circuit breaker -> retry -> deduplication -> authentication  *)
(*                                                                         *)
(* Every resource (users, roles, ...) has a client of its own, with its    *)
(* own cache, breakers, pending requests and refresh in progress; all of   *)
(* them, and the portal's other tabs, share the tokens in localStorage.    *)
(*                                                                         *)
(* A call is what a page asks of a client; a flight is one pass through    *)
(* the two innermost decorators: fetch, and after a 401 a token refresh    *)
(* and a second fetch.  A step is what runs between two awaits on the      *)
(* network or a timer.  What an answer holds is known by the time at which *)
(* it was asked for.                                                       *)
(***************************************************************************)
EXTENDS Naturals, FiniteSets

CONSTANTS
  Clients,           \* instances of createFullFeaturedClient
  Calls,             \* calls made in a run, numbered in the order they are made
  Requests,          \* what is asked: [method, path, rest], rest = query and body
  Asks,              \* client -> the requests of its resource
  SkipCache,         \* those sent with skipCache
  SkipAuthRefresh,   \* those sent with skipAuthRefresh: login, consent, token
  MaxAttempts, FailureThreshold,
  FetchTimeout, PendingTimeout, ResetTimeout, CacheTTL,
  MaxTime,           \* bound on the clock
  None

ASSUME ClientAssumption ==
  /\ Calls \subseteq Nat /\ IsFiniteSet(Calls)
  /\ Asks \in [Clients -> SUBSET Requests]
  /\ SkipCache \subseteq Requests /\ SkipAuthRefresh \subseteq Requests
  /\ {MaxAttempts, FailureThreshold} \subseteq Nat \ {0}
  /\ {FetchTimeout, PendingTimeout, ResetTimeout, CacheTTL, MaxTime} \subseteq Nat
  /\ FetchTimeout > 0 /\ PendingTimeout <= CacheTTL

VARIABLES
  clock,
  stored,      \* localStorage: the newest access and refresh token, 0 when removed
  server,      \* the oauth service: the refresh token that is still good, and
               \* the newest access token that has expired
  cache,       \* client -> request -> the entry: its data and timestamp
  breaker,     \* client -> endpoint -> the breaker
  pending,     \* client -> request -> the pending request
  flight,      \* call -> the flight that its latest attempt has under way
  call,        \* call -> how far it is and what came of it
  troubled,    \* history: refreshes of two clients overlapped, or one was lost
  failed,      \* history: client -> endpoint -> failures since the last success
  stale,       \* history: a page was given data asked for more than CacheTTL
               \* before it made its call
  uncaused     \* history: a call was shut out after fewer failures than the threshold

vars == <<clock, stored, server, cache, breaker, pending, flight, call, troubled, failed, stale, uncaused>>

Endpoint(q) == [method |-> q.method, path |-> q.path]
Endpoints == {Endpoint(q) : q \in Requests}

\* RequestDeduplicationDecorator's default methods.
Deduplicated(q) == q.method \in {"GET", "HEAD", "OPTIONS"}

(* What fetch comes back with: an answer, part of one (206), 401, another  *)
(* 4xx, a 5xx or 429, no connection, or nothing in time.                   *)
Good == {"ok", "partial"}
Outcomes == Good \cup {"unauthorized", "rejected", "overloaded", "unreachable", "timeout"}

\* defaultRetryCondition; a timeout is a TimeoutError, whose status is 408.
Retried == {"overloaded", "unreachable"}

(* defaultExceptionPredicate.  fetch's TypeError has by then been replaced *)
(* by a NetworkError without a status, which the predicate does not know.  *)
Expected == {"overloaded", "timeout"}

CacheEntries == [data : Nat, timestamp : Nat]
PendingRequests == [flight : Calls \cup {None}, outcome : Outcomes \cup {None}, data : Nat,
                    subscribers : Nat, start : Nat]

ASSUME NoneAssumption ==
  /\ None \notin Calls /\ None \notin Outcomes
  /\ None \notin CacheEntries /\ None \notin PendingRequests

Flight(pc, token, start) == [pc |-> pc, token |-> token, start |-> start]
NoFlight == Flight("none", 0, 0)

Call(pc, k, q, a, f, t) ==
  [pc |-> pc, client |-> k, request |-> q, attempt |-> a, flight |-> f, made |-> t]
NoCall == Call("idle", None, None, 0, None, 0)
EndedCall == Call("ended", None, None, 0, None, 0)
Delayed(x) == Call("delayed", x.client, x.request, x.attempt, None, x.made)

\* nextAttemptTime is kept for an open breaker only: no other reads it.
Closed == [state |-> "CLOSED", failureCount |-> 0, nextAttemptTime |-> 0]

Init ==
  /\ clock = 0
  /\ stored = [access |-> 1, refresh |-> 1]
  /\ server = [good |-> 1, expired |-> 0]
  /\ cache = [k \in Clients |-> [q \in Requests |-> None]]
  /\ breaker = [k \in Clients |-> [e \in Endpoints |-> Closed]]
  /\ pending = [k \in Clients |-> [q \in Requests |-> None]]
  /\ flight = [c \in Calls |-> NoFlight]
  /\ call = [c \in Calls |-> NoCall]
  /\ troubled = FALSE
  /\ failed = [k \in Clients |-> [e \in Endpoints |-> 0]]
  /\ stale = FALSE /\ uncaused = FALSE

(* The browser takes up an event (a click, an answer, a timer) when the    *)
(* queue of microtasks is empty.                                           *)
Quiet == \A f \in Calls : flight[f].pc # "denied"

(* prepareAuthHeaders, then BaseHttpClient: the stored token goes along    *)
(* unless its time is over.  Nothing but microtasks lies before the fetch. *)
Send(pc, tokens) ==
  Flight(pc, IF tokens.access > server.expired THEN tokens.access ELSE 0, clock)

-----------------------------------------------------------------------------
(* Back through retry, circuit breaker and cache.  The decorators take an  *)
(* outcome on in turn, for every call that waited for it, before anything  *)
(* else happens: these operators take and return what they change.         *)

Here == [call |-> call, breaker |-> breaker, cache |-> cache, failed |-> failed, stale |-> stale]

Become(there) ==
  /\ call' = there.call /\ breaker' = there.breaker /\ cache' = there.cache
  /\ failed' = there.failed /\ stale' = there.stale

\* shouldRetryOnResponse and retryCondition
Again(attempt, o) == attempt < MaxAttempts /\ o \in Retried \cup {"partial"}

\* recordFailure and openCircuitBreaker
Failed(b, n) ==
  IF b.failureCount + n < FailureThreshold THEN [b EXCEPT !.failureCount = @ + n]
  ELSE [state |-> "OPEN", failureCount |-> b.failureCount + n, nextAttemptTime |-> clock + ResetTimeout]

\* Mutant of Recorded: whatever goes wrong counts.
RecordedAlways(b, o, n) == IF o \in Good THEN Closed ELSE Failed(b, n)

(* request of the circuit breaker: a success closes it, whatever its state *)
(* by now; what it expects to go wrong, it does not count.                 *)
Recorded(b, o, n) ==
  IF o \in Good THEN Closed ELSE IF o \in Expected THEN b ELSE Failed(b, n)

\* Mutant of Stored: the entry is dated when it is written.
StoredNow(data) == [data |-> data, timestamp |-> clock]

\* setToCache: response.timestamp is when the fetch was sent.
Stored(data) == [data |-> data, timestamp |-> data]

(* The calls cs for q have outcome o, with data of that time: some try     *)
(* again after a delay, which skips neither the cache, being outside, nor  *)
(* a pending request that has failed already; for the others that is that. *)
Resumed(from, cs, k, q, o, data) ==
  LET e      == Endpoint(q)
      over   == {c \in cs : ~Again(from.call[c].attempt, o)}
      passes == o \in Good /\ over # {}
  IN [call |-> [c \in Calls |-> IF c \in over THEN EndedCall
                                ELSE IF c \in cs THEN Delayed(from.call[c]) ELSE from.call[c]],
      breaker |-> IF over = {} THEN from.breaker
                  ELSE [from.breaker EXCEPT ![k][e] = Recorded(@, o, Cardinality(over))],
      cache |-> IF passes /\ q \notin SkipCache
                THEN [from.cache EXCEPT ![k][q] = Stored(data)] ELSE from.cache,
      failed |-> [from.failed EXCEPT ![k][e] =
        IF passes THEN 0 ELSE IF o \in Good \cup Expected THEN @ ELSE @ + Cardinality(over)],
      stale |-> stale \/ (o \in Good /\ \E c \in over : from.call[c].made > data + CacheTTL)]

-----------------------------------------------------------------------------
(* Deduplication                                                           *)

(* request of the dedup decorator: an attempt sends a flight of its own,   *)
(* waits for one that is pending, or finds a pending one that has settled. *)
Enter(from, c, k, q, a, made) ==
  LET entry   == pending[k][q]
      joins   == Deduplicated(q) /\ entry # None
      waiting == [from EXCEPT !.call[c] = Call("waiting", k, q, a, IF joins THEN entry.flight ELSE c, made)]
  IN /\ Become(IF joins /\ entry.flight = None
               THEN Resumed(waiting, {c}, k, q, entry.outcome, entry.data) ELSE waiting)
     /\ flight' = IF joins THEN flight ELSE [flight EXCEPT ![c] = Send("fetch", stored)]
     /\ pending' =
          IF joins THEN [pending EXCEPT ![k][q].subscribers = @ + 1]
          ELSE IF Deduplicated(q)
          THEN [pending EXCEPT ![k][q] = [flight |-> c, outcome |-> None, data |-> 0,
                                          subscribers |-> 1, start |-> clock]]
          ELSE pending

Retry(c) ==
  /\ Quiet /\ call[c].pc = "delayed"
  /\ Enter(Here, c, call[c].client, call[c].request, call[c].attempt + 1, call[c].made)
  /\ UNCHANGED <<clock, stored, server, troubled, uncaused>>

(* releasePendingRequest: whatever is pending under the key loses one      *)
(* subscriber, be it this flight or a later one.                           *)
Released(e) == IF e.subscribers <= 1 THEN None ELSE [e EXCEPT !.subscribers = @ - 1]

Overdue(k, q) == pending[k][q] # None /\ clock >= pending[k][q].start + PendingTimeout

(* scheduleCleanup's timer.  One that was set for an earlier entry finds   *)
(* another startTime, or an entry that is due as well.                     *)
ForgetPending(k, q) ==
  /\ Quiet /\ Overdue(k, q)
  /\ pending' = [pending EXCEPT ![k][q] = None]
  /\ UNCHANGED <<clock, stored, server, cache, breaker, flight, call, troubled, failed, stale, uncaused>>

-----------------------------------------------------------------------------
(* A page makes a call                                                     *)

Hit(k, q) == q \notin SkipCache /\ cache[k][q] # None /\ clock <= cache[k][q].timestamp + CacheTTL

\* getFromCache removes an entry that has expired.
Looked(k, q) ==
  IF q \in SkipCache \/ Hit(k, q) THEN cache ELSE [cache EXCEPT ![k][q] = None]

\* canAttempt
CanAttempt(k, e) == breaker[k][e].state = "OPEN" => clock >= breaker[k][e].nextAttemptTime

\* The page makes its next call.
Makes(c) == Quiet /\ call[c].pc = "idle" /\ \A d \in Calls : d < c => call[d].pc # "idle"

AnswerFromCache(c, k, q) ==
  /\ Makes(c) /\ Hit(k, q)
  /\ call' = [call EXCEPT ![c] = EndedCall]
  /\ stale' = (stale \/ clock > cache[k][q].data + CacheTTL)
  /\ UNCHANGED <<clock, stored, server, cache, breaker, pending, flight, troubled, failed, uncaused>>

ShutOut(c, k, q) ==
  /\ Makes(c) /\ ~Hit(k, q) /\ ~CanAttempt(k, Endpoint(q))
  /\ cache' = Looked(k, q)
  /\ call' = [call EXCEPT ![c] = EndedCall]
  /\ uncaused' = (uncaused \/ failed[k][Endpoint(q)] < FailureThreshold)
  /\ UNCHANGED <<clock, stored, server, breaker, pending, flight, troubled, failed, stale>>

\* canAttempt again: every call finds a half-open breaker open to it.
HalfOpen(b) == IF b.state = "OPEN" THEN [b EXCEPT !.state = "HALF_OPEN", !.nextAttemptTime = 0] ELSE b

\* What the call takes along: the cache it looked in, and its breaker.
Admitted(k, q) ==
  [call |-> call, cache |-> Looked(k, q), failed |-> failed, stale |-> stale,
   breaker |-> [breaker EXCEPT ![k][Endpoint(q)] = HalfOpen(@)]]

Begin(c, k, q) ==
  /\ Makes(c) /\ ~Hit(k, q) /\ CanAttempt(k, Endpoint(q))
  /\ Enter(Admitted(k, q), c, k, q, 1, clock)
  /\ UNCHANGED <<clock, stored, server, troubled, uncaused>>

-----------------------------------------------------------------------------
(* A flight: fetch with the stored token, and what a 401 leads to          *)

ClientOf(f) == call[f].client
RequestOf(f) == call[f].request

(* The promise settles for everyone who waits for it, and finally releases *)
(* a subscriber of what is pending, if it went through the deduplication.  *)
Settle(f, o) ==
  LET k == ClientOf(f)  q == RequestOf(f)
      data  == IF o \in Good THEN flight[f].start ELSE 0
      entry == pending[k][q]
      settled == IF entry # None /\ entry.flight = f
               THEN [entry EXCEPT !.flight = None, !.outcome = o, !.data = data] ELSE entry
  IN /\ flight' = [flight EXCEPT ![f] = NoFlight]
     /\ pending' = IF entry = None THEN pending ELSE [pending EXCEPT ![k][q] = Released(settled)]
     /\ Become(Resumed(Here, {c \in Calls : call[c].pc = "waiting" /\ call[c].flight = f}, k, q, o, data))

(* The service answers only who is logged in, but for the requests that    *)
(* log in; the abort comes after FetchTimeout at the earliest.             *)
Possible(f) ==
  LET public  == RequestOf(f) \in SkipAuthRefresh
      allowed == flight[f].token > server.expired
  IN {o \in Outcomes :
        /\ o \in Good => public \/ allowed
        /\ o = "unauthorized" => public \/ ~allowed
        /\ o = "timeout" => clock >= flight[f].start + FetchTimeout}

(* Only the first 401 leads to a refresh.                                  *)
Refreshable(f, o) ==
  o = "unauthorized" /\ flight[f].pc = "fetch" /\ RequestOf(f) \notin SkipAuthRefresh

Receive(f, o) ==
  /\ Quiet /\ flight[f].pc \in {"fetch", "refetch"}
  /\ o \in Possible(f) /\ ~Refreshable(f, o)
  /\ Settle(f, o)
  /\ UNCHANGED <<clock, stored, server, troubled, uncaused>>

(* tryRefreshToken.  isRefreshing: a flight of this client carries a       *)
(* refresh token to the service.                                           *)
Carriers(k) == {f \in Calls : flight[f].pc = "refresh" /\ ClientOf(f) = k}

CarryToken(f) ==
  /\ flight' = [flight EXCEPT ![f] = Flight("refresh", stored.refresh, 0)]
  /\ troubled' = (troubled \/ \E k \in Clients \ {ClientOf(f)} : Carriers(k) # {})
  /\ UNCHANGED <<pending, call, cache, breaker, failed, stale>>

\* Mutant of TryRefresh: a refresh in progress is not waited for.
TryRefreshAtOnce(f) ==
  /\ Quiet /\ flight[f].pc = "fetch"
  /\ "unauthorized" \in Possible(f) /\ Refreshable(f, "unauthorized")
  /\ \/ stored.refresh = 0 /\ Settle(f, "unauthorized") /\ UNCHANGED troubled
     \/ stored.refresh # 0 /\ CarryToken(f)
  /\ UNCHANGED <<clock, stored, server, uncaused>>

(* After the first 401: wait for the refresh in progress, give up when no  *)
(* refresh token is stored, or send it.                                    *)
TryRefresh(f) ==
  /\ Quiet /\ flight[f].pc = "fetch"
  /\ "unauthorized" \in Possible(f) /\ Refreshable(f, "unauthorized")
  /\ \/ /\ Carriers(ClientOf(f)) # {}
        /\ flight' = [flight EXCEPT ![f] = Flight("await", 0, 0)]
        /\ UNCHANGED <<pending, call, cache, breaker, failed, stale, troubled>>
     \/ /\ Carriers(ClientOf(f)) = {} /\ stored.refresh = 0
        /\ Settle(f, "unauthorized")
        /\ UNCHANGED troubled
     \/ Carriers(ClientOf(f)) = {} /\ stored.refresh # 0 /\ CarryToken(f)
  /\ UNCHANGED <<clock, stored, server, uncaused>>

\* Mutant of EndRefresh: those who waited for it are not told.
EndRefreshOfOne(f, next) == flight' = [flight EXCEPT ![f] = next]

(* refreshPromise resolves for the flight that sent it and all who wait.   *)
EndRefresh(f, next) ==
  flight' = [g \in Calls |->
    IF g = f \/ (flight[g].pc = "await" /\ ClientOf(g) = ClientOf(f))
    THEN next ELSE flight[g]]

\* saveTokens: the service has rotated the refresh token.
RefreshGranted(f) ==
  /\ Quiet /\ flight[f].pc = "refresh" /\ flight[f].token = server.good
  /\ server' = [server EXCEPT !.good = @ + 1]
  /\ stored' = [access |-> server'.good, refresh |-> server'.good]
  /\ EndRefresh(f, Send("refetch", stored'))
  /\ UNCHANGED <<clock, cache, breaker, pending, call, troubled, failed, stale, uncaused>>

(* clearTokens, whatever the reason: the service refuses a token that was  *)
(* used before, or cannot be reached, or its answer does not arrive.  The  *)
(* tokens go even if another client has stored new ones meanwhile.         *)
RefreshFailed(f) ==
  /\ Quiet /\ flight[f].pc = "refresh"
  /\ server' \in IF flight[f].token = server.good
                 THEN {server, [server EXCEPT !.good = @ + 1]} ELSE {server}
  /\ troubled' = (troubled \/ flight[f].token = server.good)
  /\ stored' = [access |-> 0, refresh |-> 0]
  /\ EndRefresh(f, Flight("denied", 0, 0))
  /\ UNCHANGED <<clock, cache, breaker, pending, call, failed, stale, uncaused>>

\* request of the auth decorator rethrows the 401 it began with.
GiveUp(f) ==
  /\ flight[f].pc = "denied"
  /\ Settle(f, "unauthorized")
  /\ UNCHANGED <<clock, stored, server, troubled, uncaused>>

-----------------------------------------------------------------------------
(* What is pending is forgotten in time.  A fetch may take any time: its   *)
(* abort is called off when the headers of the answer are there, and the   *)
(* body has no timeout; nor has a refresh.  The first access token expires *)
(* at some time.                                                           *)
Tick ==
  /\ Quiet /\ clock < MaxTime
  /\ \A k \in Clients : \A q \in Requests : ~Overdue(k, q)
  /\ clock' = clock + 1
  /\ server' \in {server, [server EXCEPT !.expired = 1]}
  /\ UNCHANGED <<stored, cache, breaker, pending, flight, call, troubled, failed, stale, uncaused>>

FlightStep(f) ==
  \/ \E o \in Outcomes : Receive(f, o)
  \/ TryRefresh(f)
  \/ GiveUp(f)
  \/ RefreshGranted(f)
  \/ RefreshFailed(f)

Next ==
  \/ \E c \in Calls : \E k \in Clients : \E q \in Asks[k] :
       AnswerFromCache(c, k, q) \/ ShutOut(c, k, q) \/ Begin(c, k, q)
  \/ \E c \in Calls : Retry(c)
  \/ \E f \in Calls : FlightStep(f)
  \/ \E k \in Clients : \E q \in Requests : ForgetPending(k, q)
  \/ Tick

Spec == Init /\ [][Next]_vars

-----------------------------------------------------------------------------
(* Variables keep their types.                                             *)
UnderWay == [pc : {"waiting", "delayed"}, client : Clients, request : Requests, attempt : Nat,
             flight : Calls \cup {None}, made : Nat]
Breakers == [state : {"CLOSED", "OPEN", "HALF_OPEN"}, failureCount : Nat, nextAttemptTime : Nat]

TypeOK ==
  /\ clock \in Nat
  /\ stored \in [access : Nat, refresh : Nat] /\ server \in [good : Nat, expired : Nat]
  /\ cache \in [Clients -> [Requests -> CacheEntries \cup {None}]]
  /\ breaker \in [Clients -> [Endpoints -> Breakers]]
  /\ pending \in [Clients -> [Requests -> PendingRequests \cup {None}]]
  /\ flight \in [Calls -> [pc : {"none", "fetch", "await", "refresh", "denied", "refetch"},
                           token : Nat, start : Nat]]
  /\ call \in [Calls -> UnderWay \cup {NoCall, EndedCall}]
  /\ failed \in [Clients -> [Endpoints -> Nat]]
  /\ troubled \in BOOLEAN /\ stale \in BOOLEAN /\ uncaused \in BOOLEAN

(* A page that is told its call succeeded is given what the service        *)
(* answered to a request sent at most CacheTTL before the call was made:   *)
(* whether it came over the network, however slowly, from the cache, or    *)
(* from a pending request, which outlives its flight because only one of   *)
(* its subscribers is released; and after a timer has forgotten the        *)
(* request of a flight still under way.  Updates are no exception:         *)
(* repeated within CacheTTL they are answered so, and never sent.          *)
AnswersAreRecent ==
  ~stale

(* canAttempt: a call is shut out only if FailureThreshold calls to its    *)
(* endpoint failed with an error that counts since one last succeeded;     *)
(* however many calls the half-open breaker let through, and however late  *)
(* those come back that were under way when it opened.                     *)
ShutOutForCause == ~uncaused

(* tryRefreshToken: as long as no refresh fails on the way and the         *)
(* refreshes of two clients do not overlap, the stored refresh token is    *)
(* the one the service will accept: the calls of one client never use a    *)
(* token twice between them, and never log the user out.                   *)
OneClientKeepsItsSession ==
  ~troubled => stored.refresh = server.good

(* Whoever waits is waited for: the flight of every call is under way,     *)
(* whether the call sent or joined it and whatever became of the pending   *)
(* request meanwhile; a flight that waits for a refresh has another one    *)
(* of its client that carries the token; and what is pending and has not   *)
(* settled is under way.  As attempts are counted, every call ends if      *)
(* every refresh, which has no timeout of its own, is answered or fails.   *)
NobodyWaitsInVain ==
  /\ \A c \in Calls : call[c].pc = "waiting" =>
       LET f == call[c].flight IN
       /\ flight[f].pc # "none"
       /\ flight[f].pc = "await" => Carriers(ClientOf(f)) # {}
  /\ \A k \in Clients : \A q \in Requests :
       pending[k][q] # None /\ pending[k][q].outcome = None => flight[pending[k][q].flight].pc # "none"
=============================================================================
