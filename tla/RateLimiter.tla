---------------------------- MODULE RateLimiter ----------------------------
(***************************************************************************)
(* The in-memory sliding-window limiters of the oauth service              *)
(* (middleware/rate_limit.rs, middleware/login_rate_limit.rs): 100 requests*)
(* and 20 token requests per minute and IP, 5 logins per 5 minutes and IP. *)
(*                                                                         *)
(* Every operation reads the clock first and only then waits for the       *)
(* write lock of the map, so that what it does under the lock may be based *)
(* on a time that has passed: MaxDelay bounds how long that takes.  A call *)
(* is made once; the Vec<Instant> of a key is the set of the calls whose   *)
(* instants are in it (it is only filtered and counted).                   *)
(***************************************************************************)
EXTENDS Naturals, FiniteSets

CONSTANTS
  Keys,         \* client IPs
  Calls,        \* the calls made in a run
  MaxRequests,  \* max_requests, max_attempts
  Window,       \* window
  MaxDelay,     \* longest time between Instant::now() and the lock
  MaxTime       \* bound on the clock

ASSUME LimiterAssumption ==
  /\ IsFiniteSet(Calls)
  /\ MaxRequests \in Nat /\ Window \in Nat /\ MaxDelay \in Nat /\ MaxTime \in Nat
  /\ MaxDelay < Window

VARIABLES
  clock,    \* the monotonic clock
  tracked,  \* the keys present in the HashMap
  history,  \* key -> the calls recorded for it ({} when it is not tracked)
  pc,       \* call -> where it is
  key,      \* call -> its client's IP
  now,      \* call -> the instant it read
  at        \* history: call -> the time at which it was decided

vars == <<clock, tracked, history, pc, key, now, at>>

Waiting == {"check", "cleanup", "count"}

Init ==
  /\ clock = 0
  /\ tracked = {}
  /\ history = [k \in Keys |-> {}]
  /\ pc = [c \in Calls |-> "start"]
  /\ key \in [Calls -> Keys]
  /\ now = [c \in Calls |-> 0]
  /\ at = [c \in Calls |-> 0]

\* Instant::now(), before write().await.
ReadClock(c, from, to) ==
  /\ pc[c] = from
  /\ pc' = [pc EXCEPT ![c] = to]
  /\ now' = [now EXCEPT ![c] = clock]
  /\ UNCHANGED <<clock, tracked, history, key, at>>

\* A request arrives, or the background task starts a cleanup.
Arrive(c) == ReadClock(c, "start", "check") \/ ReadClock(c, "start", "cleanup")

\* Mutant of Fresh: the boundary instant still counts.
FreshInclusive(k, n) == {c \in history[k] : n <= now[c] + Window}

(* retain: duration_since is 0 for an instant that is still ahead of n.    *)
Fresh(k, n) == {c \in history[k] : n < now[c] + Window}

Decide(c, verdict) ==
  /\ pc[c] = "check"
  /\ tracked' = tracked \cup {key[c]}
  /\ pc' = [pc EXCEPT ![c] = verdict]
  /\ at' = [at EXCEPT ![c] = clock]
  /\ UNCHANGED <<clock, key, now>>

\* Mutant of Admit: one request too many.
AdmitOneMore(c) ==
  LET kept == Fresh(key[c], now[c]) IN
  /\ Cardinality(kept) <= MaxRequests
  /\ history' = [history EXCEPT ![key[c]] = kept \cup {c}]
  /\ Decide(c, "admitted")

(* check_rate_limit, check_login_attempt: under the lock.                  *)
Admit(c) ==
  LET kept == Fresh(key[c], now[c]) IN
  /\ Cardinality(kept) < MaxRequests
  /\ history' = [history EXCEPT ![key[c]] = kept \cup {c}]
  /\ Decide(c, "admitted")

Refuse(c) ==
  LET kept == Fresh(key[c], now[c]) IN
  /\ Cardinality(kept) >= MaxRequests
  /\ history' = [history EXCEPT ![key[c]] = kept]
  /\ Decide(c, "refused")

(* get_remaining_attempts, which the login handler calls for its log once  *)
(* it is refused: a second critical section, with its own instant.  at     *)
(* and the verdict stay; now is from here on the second instant.           *)
CountRemaining(c) ==
  \/ ReadClock(c, "refused", "count")
  \/ /\ pc[c] = "count"
     /\ pc' = [pc EXCEPT ![c] = "counted"]
     /\ history' = [history EXCEPT ![key[c]] = Fresh(key[c], now[c])]
     /\ UNCHANGED <<clock, tracked, key, now, at>>

(* cleanup: expired instants go, and keys without any.  Only tests call    *)
(* it; tracked shows that nothing else ever forgets a key.                 *)
Cleanup(c) ==
  /\ pc[c] = "cleanup"
  /\ pc' = [pc EXCEPT ![c] = "clean"]
  /\ history' = [k \in Keys |-> Fresh(k, now[c])]
  /\ tracked' = {k \in tracked : history'[k] # {}}
  /\ UNCHANGED <<clock, key, now, at>>

(* Time passes, but nobody waits longer than MaxDelay for the lock.        *)
Tick ==
  /\ clock < MaxTime
  /\ \A c \in Calls : pc[c] \in Waiting => clock < now[c] + MaxDelay
  /\ clock' = clock + 1
  /\ UNCHANGED <<tracked, history, pc, key, now, at>>

Next ==
  \/ Tick
  \/ \E c \in Calls :
       Arrive(c) \/ Admit(c) \/ Refuse(c) \/ CountRemaining(c) \/ Cleanup(c)

Spec == Init /\ [][Next]_vars

-----------------------------------------------------------------------------
(* The variables keep their types, and a key that is not in the map has no *)
(* recorded call.                                                          *)
TypeOK ==
  /\ clock \in 0..MaxTime
  /\ tracked \subseteq Keys
  /\ history \in [Keys -> SUBSET Calls]
  /\ pc \in [Calls -> Waiting \cup {"start", "admitted", "refused", "counted", "clean"}]
  /\ key \in [Calls -> Keys]
  /\ now \in [Calls -> 0..MaxTime]
  /\ at \in [Calls -> 0..MaxTime]
  /\ \A k \in Keys \ tracked : history[k] = {}

Admitted(k) == {c \in Calls : pc[c] = "admitted" /\ key[c] = k}

(* The admissions of k that take effect in the s time units from t on.     *)
AdmittedDuring(k, t, s) == {c \in Admitted(k) : t <= at[c] /\ at[c] < t + s}

(* check_rate_limit: in no interval of length Window - MaxDelay does one   *)
(* client get more than MaxRequests requests through, however late the     *)
(* calls reach the lock, in whatever order, and whatever cleanup and       *)
(* get_remaining_attempts remove meanwhile.  With MaxDelay = 0 this is the *)
(* documented limit.                                                       *)
WindowBound ==
  \A k \in Keys : \A t \in 0..MaxTime :
    Cardinality(AdmittedDuring(k, t, Window - MaxDelay)) <= MaxRequests

(* check_rate_limit: a request is only refused when its own client really  *)
(* had MaxRequests requests let through within the Window that ended at    *)
(* the instant the request read; another client never uses up the budget,  *)
(* and a refused request does not count.                                   *)
RefusalsJustified ==
  \A c \in Calls : pc[c] = "refused" =>
    Cardinality({d \in Admitted(key[c]) : at[d] <= at[c] /\ now[c] < at[d] + Window})
      >= MaxRequests
=============================================================================
