-------------------------- MODULE ApiClientProofs ---------------------------
(***************************************************************************)
(* Proofs about the admin portal's API client, for any number of clients,  *)
(* calls and requests, and any timeouts and thresholds.                    *)
(***************************************************************************)
EXTENDS ApiClient, FiniteSetTheorems, TLAPS

(* The types of what is taken back through the decorators.                 *)
CallType == [Calls -> UnderWay \cup {NoCall, EndedCall}]
BreakerType == [Clients -> [Endpoints -> Breakers]]
CacheType == [Clients -> [Requests -> CacheEntries \cup {None}]]
FailedType == [Clients -> [Endpoints -> Nat]]
There == [call : CallType, breaker : BreakerType, cache : CacheType, failed : FailedType,
          stale : BOOLEAN]

LEMMA HereType == TypeOK => Here \in There
BY DEF TypeOK, Here, There, CallType, BreakerType, CacheType, FailedType

LEMMA RecordedType ==
  ASSUME NEW b \in Breakers, NEW o \in Outcomes, NEW n \in Nat, clock \in Nat
  PROVE  Recorded(b, o, n) \in Breakers
BY ClientAssumption DEF Recorded, Failed, Closed, Breakers

LEMMA CallTypes ==
  /\ NoCall.pc = "idle" /\ NoCall.made = 0 /\ EndedCall.pc = "ended" /\ EndedCall.made = 0
  /\ \A x \in UnderWay \cup {NoCall, EndedCall} :
       /\ x.made \in Nat
       /\ x.pc \in {"waiting", "delayed"} => x \in UnderWay
BY DEF UnderWay, NoCall, EndedCall, Call

LEMMA DelayedType ==
  ASSUME NEW x \in UnderWay
  PROVE  /\ Delayed(x) \in UnderWay /\ Delayed(x).pc = "delayed" /\ Delayed(x).made = x.made
BY DEF UnderWay, Delayed, Call

LEMMA EndpointType == \A q \in Requests : Endpoint(q) \in Endpoints
BY DEF Endpoints

\* The failures a breaker counts are those since the last success.
CountsAgree(breakers, failures) ==
  \A k \in Clients : \A e \in Endpoints :
    /\ failures[k][e] = breakers[k][e].failureCount
    /\ breakers[k][e].state = "OPEN" => breakers[k][e].failureCount >= FailureThreshold

\* A cache entry is dated by when its data were asked for.
Dated(entries) ==
  \A k \in Clients : \A q \in Requests :
    entries[k][q] # None => entries[k][q].timestamp = entries[k][q].data

Waiting(from, cs) == \A c \in cs : from.call[c].pc = "waiting"

(* What Resumed does to the calls: those that waited are delayed or ended, *)
(* the others are left alone.                                              *)
CalledBack(from, cs, o, data, r) ==
  /\ r \in There
  /\ \A c \in Calls \ cs : r.call[c] = from.call[c]
  /\ \A c \in cs : r.call[c].pc \in {"delayed", "ended"} /\ r.call[c].made \in {0, from.call[c].made}
  /\ CountsAgree(from.breaker, from.failed) => CountsAgree(r.breaker, r.failed)
  /\ Dated(from.cache) => Dated(r.cache)
  /\ ~stale /\ (o \in Good => \A c \in cs : from.call[c].made <= data + CacheTTL) => ~r.stale

LEMMA ResumedCalls ==
  ASSUME NEW from \in There, NEW cs \in SUBSET Calls, Waiting(from, cs),
         NEW k \in Clients, NEW q \in Requests, NEW o \in Outcomes, NEW data \in Nat,
         TypeOK, NEW r, r = Resumed(from, cs, k, q, o, data)
  PROVE  CalledBack(from, cs, o, data, r)
<1> DEFINE over == {c \in cs : ~Again(from.call[c].attempt, o)}
<1>1. \A c \in cs : from.call[c] \in UnderWay
  BY CallTypes DEF There, CallType, Waiting
<1>2. over \subseteq cs /\ Cardinality(over) \in Nat
  BY ClientAssumption, FS_Subset, FS_CardinalityType
<1> HIDE DEF over
<1>3. r.call = [c \in Calls |-> IF c \in over THEN EndedCall
                               ELSE IF c \in cs THEN Delayed(from.call[c]) ELSE from.call[c]]
  BY DEF Resumed, over
<1>4. r.call \in CallType
  BY <1>1, <1>2, <1>3, DelayedType DEF There, CallType
<1>5. r.breaker \in BreakerType
  <2>1. r.breaker = IF over = {} THEN from.breaker
                    ELSE [from.breaker EXCEPT ![k][Endpoint(q)] = Recorded(@, o, Cardinality(over))]
    BY DEF Resumed, over
  <2>2. from.breaker \in BreakerType /\ clock \in Nat
    BY DEF There, TypeOK
  <2> QED BY <1>2, <2>1, <2>2, RecordedType, EndpointType DEF BreakerType
<1>6. r.cache \in CacheType
  <2>1. r.cache = IF (o \in Good /\ over # {}) /\ q \notin SkipCache
                  THEN [from.cache EXCEPT ![k][q] = Stored(data)] ELSE from.cache
    BY DEF Resumed, over
  <2>2. Stored(data) \in CacheEntries
    BY DEF Stored, CacheEntries
  <2> QED BY <2>1, <2>2 DEF There, CacheType
<1>7. r.failed \in FailedType
  <2>1. r.failed = [from.failed EXCEPT ![k][Endpoint(q)] =
          IF o \in Good /\ over # {} THEN 0
          ELSE IF o \in Good \cup Expected THEN @ ELSE @ + Cardinality(over)]
    BY DEF Resumed, over
  <2> QED BY <1>2, <2>1, EndpointType DEF There, FailedType
<1>8. r.stale \in BOOLEAN
  BY DEF Resumed
<1>9. r \in There
  <2>1. r = [call |-> r.call, breaker |-> r.breaker, cache |-> r.cache, failed |-> r.failed, stale |-> r.stale]
    BY DEF Resumed
  <2> QED BY <1>4, <1>5, <1>6, <1>7, <1>8, <2>1 DEF There
<1>10. ASSUME CountsAgree(from.breaker, from.failed) PROVE CountsAgree(r.breaker, r.failed)
  <2> DEFINE b == from.breaker[k][Endpoint(q)]
  <2>1. b \in Breakers /\ from.failed[k][Endpoint(q)] = b.failureCount /\ clock \in Nat
    BY <1>10, EndpointType DEF CountsAgree, There, BreakerType, TypeOK
  <2>2. r.breaker = IF over = {} THEN from.breaker
                    ELSE [from.breaker EXCEPT ![k][Endpoint(q)] = Recorded(b, o, Cardinality(over))]
    BY EndpointType DEF Resumed, over, There, BreakerType
  <2>3. r.failed = [from.failed EXCEPT ![k][Endpoint(q)] =
          IF o \in Good /\ over # {} THEN 0
          ELSE IF o \in Good \cup Expected THEN b.failureCount ELSE b.failureCount + Cardinality(over)]
    BY <2>1, EndpointType DEF Resumed, over, There, FailedType
  <2>4. over = {} => Cardinality(over) = 0
    BY FS_EmptySet
  <2>5. b.state = "OPEN" => b.failureCount >= FailureThreshold
    BY <1>10, EndpointType DEF CountsAgree
  <2> HIDE DEF b
  <2> DEFINE n == Recorded(b, o, Cardinality(over))
  <2>6. /\ n.failureCount = IF o \in Good THEN 0 ELSE IF o \in Expected THEN b.failureCount
                            ELSE b.failureCount + Cardinality(over)
        /\ n.state = "OPEN" => n.failureCount >= FailureThreshold
    <3>1. CASE o \in Good
      BY <3>1 DEF Recorded, Closed
    <3>2. CASE o \notin Good /\ o \in Expected
      BY <2>5, <3>2 DEF Recorded
    <3>3. CASE o \notin Good /\ o \notin Expected
      <4>1. n = Failed(b, Cardinality(over))
        BY <3>3 DEF Recorded
      <4>2. CASE b.failureCount + Cardinality(over) < FailureThreshold
        BY <1>2, <2>1, <2>5, <3>3, <4>1, <4>2, ClientAssumption DEF Failed, Breakers
      <4>3. CASE ~(b.failureCount + Cardinality(over) < FailureThreshold)
        <5>1. n.failureCount = b.failureCount + Cardinality(over) /\ n.state = "OPEN"
          BY <4>1, <4>3 DEF Failed
        <5>2. b.failureCount \in Nat
          BY <2>1 DEF Breakers
        <5> HIDE DEF n
        <5> QED BY <1>2, <3>3, <4>3, <5>1, <5>2, ClientAssumption
      <4> QED BY <4>2, <4>3
    <3> QED BY <3>1, <3>2, <3>3
  <2> HIDE DEF n
  <2>7. \A l \in Clients, e \in Endpoints :
          \/ r.breaker[l][e] = from.breaker[l][e] /\ r.failed[l][e] = from.failed[l][e]
          \/ /\ r.breaker[l][e] = n
             /\ r.failed[l][e] = IF o \in Good THEN 0 ELSE IF o \in Expected THEN b.failureCount
                                 ELSE b.failureCount + Cardinality(over)
    <3>1. CASE over = {}
      <4>1. r.failed = [from.failed EXCEPT ![k][Endpoint(q)] = from.failed[k][Endpoint(q)]]
        <5>1. b.failureCount \in Nat
          BY <2>1 DEF Breakers
        <5> QED BY <2>1, <2>3, <2>4, <3>1, <5>1
      <4> QED BY <2>2, <3>1, <4>1, EndpointType DEF There, FailedType
    <3>2. CASE over # {}
      BY <2>2, <2>3, <3>2, EndpointType DEF There, BreakerType, FailedType, n
    <3> QED BY <3>1, <3>2
  <2> QED BY <1>10, <2>6, <2>7 DEF CountsAgree
<1>11. Dated(from.cache) => Dated(r.cache)
  <2>1. r.cache = from.cache \/ r.cache = [from.cache EXCEPT ![k][q] = Stored(data)]
    BY DEF Resumed
  <2>2. Stored(data).timestamp = Stored(data).data
    BY DEF Stored
  <2>3. \A l \in Clients, p \in Requests :
          r.cache[l][p] = from.cache[l][p] \/ r.cache[l][p] = Stored(data)
    BY <2>1 DEF There, CacheType
  <2> QED BY <2>2, <2>3 DEF Dated
<1>12. ASSUME ~stale, o \in Good => \A c \in cs : from.call[c].made <= data + CacheTTL
       PROVE  ~r.stale
  <2> DEFINE made(c) == from.call[c].made
  <2>1. r.stale => stale \/ (o \in Good /\ \E c \in over : made(c) > data + CacheTTL)
    BY DEF Resumed, over
  <2>2. \A c \in cs : made(c) \in Nat
    BY <1>1 DEF UnderWay
  <2>3. o \in Good => \A c \in cs : made(c) <= data + CacheTTL
    BY <1>12
  <2> HIDE DEF made
  <2> QED BY <1>2, <1>12, <2>1, <2>2, <2>3, ClientAssumption
<1> QED BY <1>1, <1>2, <1>3, <1>9, <1>10, <1>11, <1>12, CallTypes, DelayedType DEF CalledBack

-----------------------------------------------------------------------------
(* Who waits for what.                                                     *)

\* The call that sent a flight waits for it.
Owned ==
  \A c \in Calls : flight[c].pc # "none" => call[c].pc = "waiting" /\ call[c].flight = c

\* A call waits for a flight of its own client and request, under way.
Joined ==
  \A c \in Calls : call[c].pc = "waiting" =>
    LET f == call[c].flight IN
    /\ f \in Calls /\ flight[f].pc # "none"
    /\ call[f].client = call[c].client /\ call[f].request = call[c].request

\* What is pending has settled, or is a flight of this client and request.
Held ==
  \A k \in Clients : \A q \in Requests : pending[k][q] # None =>
    LET e == pending[k][q] IN
    /\ e.flight = None => e.outcome # None
    /\ e.flight # None =>
         /\ e.outcome = None /\ flight[e.flight].pc # "none"
         /\ call[e.flight].client = k /\ call[e.flight].request = q

\* Who waits for a refresh has another flight of the client that carries it.
Carried ==
  \A f \in Calls : flight[f].pc = "await" =>
    \E g \in Calls : flight[g].pc = "refresh" /\ call[g].client = call[f].client

Waits == Owned /\ Joined /\ Held /\ Carried

-----------------------------------------------------------------------------
(* What an attempt does: it is done, or joins a flight, or sends its own.  *)

FlightType == [Calls -> [pc : {"none", "fetch", "await", "refresh", "denied", "refetch"},
                         token : Nat, start : Nat]]
PendingType == [Clients -> [Requests -> PendingRequests \cup {None}]]

\* What is pending is as it was but for its subscribers.
SamePending(e, d) ==
  e.flight = d.flight /\ e.outcome = d.outcome /\ e.data = d.data /\ e.start = d.start

LEMMA PendingEntry ==
  TypeOK => \A k \in Clients : \A q \in Requests :
    pending[k][q] # None =>
      LET e == pending[k][q] IN
      /\ e \in PendingRequests /\ e.flight \in Calls \cup {None} /\ e.outcome \in Outcomes \cup {None}
      /\ e.data \in Nat /\ e.start \in Nat /\ e.subscribers \in Nat
BY DEF TypeOK, PendingRequests

LEMMA SendType ==
  ASSUME TypeOK, NEW pc \in {"fetch", "refetch"}, NEW tokens \in [access : Nat, refresh : Nat]
  PROVE  /\ Send(pc, tokens) \in [pc : {"fetch", "refetch"}, token : Nat, start : Nat]
         /\ Send(pc, tokens).pc = pc /\ Send(pc, tokens).start = clock
BY DEF TypeOK, Send, Flight

LEMMA EnterParts ==
  ASSUME TypeOK, Waits, NEW c \in Calls, call[c].pc \in {"idle", "delayed"},
         NEW from \in There, from.call = call, from.stale = stale,
         NEW k \in Clients, NEW q \in Requests, NEW a \in Nat, NEW made \in Nat,
         Enter(from, c, k, q, a, made)
  PROVE  /\ call' \in CallType /\ breaker' \in BreakerType /\ cache' \in CacheType
         /\ failed' \in FailedType /\ stale' \in BOOLEAN
         /\ flight' \in FlightType /\ pending' \in PendingType
         /\ flight[c].pc = "none"
         /\ \A d \in Calls \ {c} : call'[d] = call[d] /\ flight'[d] = flight[d]
         /\ call'[c].made \in {0, made}
         /\ \/ /\ call'[c].pc \in {"delayed", "ended"} /\ flight' = flight
               /\ pending[k][q] # None /\ pending[k][q].flight = None
            \/ /\ call'[c] = Call("waiting", k, q, a, pending[k][q].flight, made) /\ flight' = flight
               /\ pending[k][q] # None /\ pending[k][q].flight # None
            \/ /\ call'[c] = Call("waiting", k, q, a, c, made)
               /\ flight'[c].pc = "fetch" /\ flight'[c].start = clock
         /\ \A l \in Clients, p \in Requests :
              pending'[l][p] # None =>
                \/ pending[l][p] # None /\ SamePending(pending'[l][p], pending[l][p])
                \/ /\ l = k /\ p = q /\ call'[c] = Call("waiting", k, q, a, c, made)
                   /\ pending'[k][q].flight = c /\ pending'[k][q].outcome = None
                   /\ pending'[k][q].start = clock
         /\ CountsAgree(from.breaker, from.failed) => CountsAgree(breaker', failed')
         /\ Dated(from.cache) => Dated(cache')
         /\ ~stale /\ (pending[k][q] # None /\ pending[k][q].outcome \in Good => made <= pending[k][q].data + CacheTTL)
              => ~stale'
<1> DEFINE entry == pending[k][q]
           joins == Deduplicated(q) /\ entry # None
           waiting == [from EXCEPT !.call[c] = Call("waiting", k, q, a, IF joins THEN entry.flight ELSE c, made)]
           there == IF joins /\ entry.flight = None
                    THEN Resumed(waiting, {c}, k, q, entry.outcome, entry.data) ELSE waiting
<1>1. /\ Become(there)
      /\ flight' = IF joins THEN flight ELSE [flight EXCEPT ![c] = Send("fetch", stored)]
      /\ pending' =
           IF joins THEN [pending EXCEPT ![k][q].subscribers = @ + 1]
           ELSE IF Deduplicated(q)
           THEN [pending EXCEPT ![k][q] = [flight |-> c, outcome |-> None, data |-> 0,
                                           subscribers |-> 1, start |-> clock]]
           ELSE pending
  BY DEF Enter
<1>2. entry # None => /\ entry \in PendingRequests /\ entry.flight \in Calls \cup {None}
                      /\ entry.outcome \in Outcomes \cup {None} /\ entry.data \in Nat
                      /\ (entry.flight = None => entry.outcome \in Outcomes)
  BY PendingEntry DEF Waits, Held
<1>3. flight[c].pc = "none"
  BY DEF Waits, Owned
<1>4. waiting.call = [call EXCEPT ![c] = Call("waiting", k, q, a, IF joins THEN entry.flight ELSE c, made)]
  BY DEF There
<1>5. waiting \in There
  <2>1. Call("waiting", k, q, a, IF joins THEN entry.flight ELSE c, made) \in UnderWay
    BY <1>2 DEF Call, UnderWay
  <2> QED BY <2>1 DEF There, CallType
<1>6. /\ waiting.call[c].pc = "waiting" /\ waiting.call[c].made = made
      /\ \A d \in Calls \ {c} : waiting.call[d] = call[d]
  BY <1>4 DEF There, CallType, Call, TypeOK
<1>11. /\ waiting.breaker = from.breaker /\ waiting.failed = from.failed
       /\ waiting.cache = from.cache /\ waiting.stale = stale
  BY DEF There
<1> HIDE DEF entry, waiting
<1>7. /\ there \in There
      /\ \A d \in Calls \ {c} : there.call[d] = call[d]
      /\ there.call[c].made \in {0, made}
      /\ IF joins /\ entry.flight = None THEN there.call[c].pc \in {"delayed", "ended"}
         ELSE there.call[c] = Call("waiting", k, q, a, IF joins THEN entry.flight ELSE c, made)
      /\ CountsAgree(from.breaker, from.failed) => CountsAgree(there.breaker, there.failed)
      /\ Dated(from.cache) => Dated(there.cache)
      /\ ~stale /\ (entry # None /\ entry.outcome \in Good => made <= entry.data + CacheTTL) => ~there.stale
  <2>1. CASE joins /\ entry.flight = None
    <3>1. there = Resumed(waiting, {c}, k, q, entry.outcome, entry.data)
      BY <2>1
    <3> HIDE DEF there
    <3>2. entry.outcome \in Outcomes /\ entry.data \in Nat
      BY <1>2, <2>1
    <3>3. /\ there \in There
          /\ \A d \in Calls \ {c} : there.call[d] = waiting.call[d]
          /\ \A d \in {c} : /\ there.call[d].pc \in {"delayed", "ended"}
                          /\ there.call[d].made \in {0, waiting.call[d].made}
          /\ CountsAgree(waiting.breaker, waiting.failed) => CountsAgree(there.breaker, there.failed)
          /\ Dated(waiting.cache) => Dated(there.cache)
          /\ ~stale /\ (entry.outcome \in Good => \A d \in {c} : waiting.call[d].made <= entry.data + CacheTTL)
               => ~there.stale
      <4>1. {c} \in SUBSET Calls /\ Waiting(waiting, {c})
        BY <1>6 DEF Waiting
      <4>2. CalledBack(waiting, {c}, entry.outcome, entry.data, there)
        BY <1>5, <3>1, <3>2, <4>1, ResumedCalls
      <4> QED BY <4>2 DEF CalledBack
    <3> QED BY <1>6, <1>11, <2>1, <3>3
  <2>2. CASE ~(joins /\ entry.flight = None)
    <3>1. there = waiting
      BY <2>2
    <3>2. waiting.call[c] = Call("waiting", k, q, a, IF joins THEN entry.flight ELSE c, made)
      BY <1>4 DEF TypeOK
    <3> HIDE DEF there, joins
    <3> QED BY <1>5, <1>6, <1>11, <2>2, <3>1, <3>2
  <2> QED BY <2>1, <2>2
<1> HIDE DEF there
<1>8. /\ call' = there.call /\ breaker' = there.breaker /\ failed' = there.failed
      /\ cache' = there.cache /\ stale' = there.stale
      /\ call' \in CallType /\ breaker' \in BreakerType /\ cache' \in CacheType
      /\ failed' \in FailedType /\ stale' \in BOOLEAN
  BY <1>1, <1>7 DEF Become, There
<1>9. /\ flight' \in FlightType /\ \A d \in Calls \ {c} : flight'[d] = flight[d]
      /\ ~joins => flight'[c].pc = "fetch" /\ flight'[c].start = clock
      /\ joins => flight' = flight
  BY <1>1, SendType DEF TypeOK, FlightType
<1>10. /\ pending' \in PendingType
       /\ \A l \in Clients, p \in Requests :
            pending'[l][p] # None =>
              \/ pending[l][p] # None /\ SamePending(pending'[l][p], pending[l][p])
              \/ /\ l = k /\ p = q /\ ~joins
                 /\ pending'[k][q].flight = c /\ pending'[k][q].outcome = None
                 /\ pending'[k][q].start = clock
  <2>1. CASE joins
    <3>1. pending' = [pending EXCEPT ![k][q].subscribers = @ + 1]
      BY <1>1, <2>1
    <3>2. [pending[k][q] EXCEPT !.subscribers = @ + 1] \in PendingRequests
      BY <1>2, <2>1, PendingEntry DEF entry, PendingRequests
    <3>3. SamePending([pending[k][q] EXCEPT !.subscribers = @ + 1], pending[k][q])
      BY <1>2, <2>1 DEF entry, PendingRequests, SamePending
    <3> QED BY <2>1, <3>1, <3>2, <3>3 DEF PendingType, TypeOK, entry, SamePending
  <2>2. CASE ~joins /\ Deduplicated(q)
    <3>1. [flight |-> c, outcome |-> None, data |-> 0, subscribers |-> 1, start |-> clock] \in PendingRequests
      BY DEF PendingRequests, TypeOK
    <3> QED BY <1>1, <2>2, <3>1 DEF PendingType, TypeOK, SamePending
  <2>3. CASE ~joins /\ ~Deduplicated(q)
    BY <1>1, <2>3 DEF PendingType, TypeOK, SamePending
  <2> QED BY <2>1, <2>2, <2>3
<1> QED BY <1>3, <1>7, <1>8, <1>9, <1>10 DEF entry

(* What becomes of the calls, and of what is pending, when a flight ends.  *)
LEMMA SettleParts ==
  ASSUME TypeOK, Waits, NEW f \in Calls, flight[f].pc # "none", NEW o \in Outcomes, Settle(f, o)
  PROVE  /\ call' \in CallType /\ breaker' \in BreakerType /\ cache' \in CacheType
         /\ failed' \in FailedType /\ stale' \in BOOLEAN
         /\ flight' \in FlightType /\ pending' \in PendingType
         /\ flight' = [flight EXCEPT ![f] = NoFlight]
         /\ \A c \in Calls :
              \/ /\ call[c].pc = "waiting" /\ call[c].flight = f
                 /\ call'[c].pc \in {"delayed", "ended"} /\ call'[c].made \in {0, call[c].made}
              \/ ~(call[c].pc = "waiting" /\ call[c].flight = f) /\ call'[c] = call[c]
         /\ \A l \in Clients, p \in Requests :
              pending'[l][p] # None =>
                /\ pending[l][p] # None
                /\ \/ pending[l][p].flight # f /\ SamePending(pending'[l][p], pending[l][p])
                   \/ /\ pending[l][p].flight = f /\ pending'[l][p].flight = None
                      /\ pending'[l][p].outcome = o /\ pending'[l][p].start = pending[l][p].start
                      /\ o \in Good => pending'[l][p].data = flight[f].start
         /\ CountsAgree(breaker, failed) => CountsAgree(breaker', failed')
         /\ Dated(cache) => Dated(cache')
         /\ ~stale /\ (o \in Good => \A c \in Calls : call[c].pc = "waiting" /\ call[c].flight = f
                          => call[c].made <= flight[f].start + CacheTTL) => ~stale'
<1> DEFINE k == ClientOf(f)
           q == RequestOf(f)
           data == IF o \in Good THEN flight[f].start ELSE 0
           entry == pending[k][q]
           settled == IF entry # None /\ entry.flight = f
                      THEN [entry EXCEPT !.flight = None, !.outcome = o, !.data = data] ELSE entry
           waiting == {c \in Calls : call[c].pc = "waiting" /\ call[c].flight = f}
           there == Resumed(Here, waiting, k, q, o, data)
<1>1. call[f] \in UnderWay /\ k \in Clients /\ q \in Requests
  <2>1. call[f].pc = "waiting"
    BY DEF Waits, Owned
  <2> QED BY <2>1, CallTypes DEF TypeOK, UnderWay, ClientOf, RequestOf
<1>2. data \in Nat
  <2>1. flight[f].start \in Nat
    BY DEF TypeOK
  <2> QED BY <2>1
<1>3. /\ flight' = [flight EXCEPT ![f] = NoFlight]
      /\ pending' = IF entry = None THEN pending ELSE [pending EXCEPT ![k][q] = Released(settled)]
      /\ Become(there)
  BY DEF Settle
<1>4. /\ there \in There
      /\ \A c \in Calls \ waiting : there.call[c] = call[c]
      /\ \A c \in waiting : there.call[c].pc \in {"delayed", "ended"} /\ there.call[c].made \in {0, call[c].made}
      /\ CountsAgree(breaker, failed) => CountsAgree(there.breaker, there.failed)
      /\ Dated(cache) => Dated(there.cache)
      /\ ~stale /\ (o \in Good => \A c \in waiting : call[c].made <= data + CacheTTL) => ~there.stale
  <2>1. /\ Here \in There /\ Here.call = call /\ Here.breaker = breaker
        /\ Here.failed = failed /\ Here.cache = cache
    BY HereType DEF Here
  <2>2. waiting \in SUBSET Calls /\ Waiting(Here, waiting)
    BY <2>1 DEF Waiting
  <2>3. there = Resumed(Here, waiting, k, q, o, data)
    OBVIOUS
  <2> HIDE DEF k, q, data, waiting, there, settled, entry
  <2>4. CalledBack(Here, waiting, o, data, there)
    BY <1>1, <1>2, <2>1, <2>2, <2>3, ResumedCalls
  <2> QED BY <2>1, <2>4 DEF CalledBack
<1>5. /\ call' \in CallType /\ breaker' \in BreakerType /\ cache' \in CacheType
      /\ failed' \in FailedType /\ stale' \in BOOLEAN /\ call' = there.call
      /\ breaker' = there.breaker /\ failed' = there.failed /\ cache' = there.cache /\ stale' = there.stale
  <2> HIDE DEF there
  <2> QED BY <1>3, <1>4 DEF Become, There
<1>6. flight' \in FlightType
  BY <1>3 DEF TypeOK, FlightType, NoFlight, Flight
<1>7. entry # None =>
        /\ settled \in PendingRequests /\ settled.start = entry.start
        /\ IF entry.flight = f
           THEN settled.flight = None /\ settled.outcome = o /\ settled.data = data
           ELSE settled = entry
  <2>1. entry # None => entry \in PendingRequests
    BY <1>1, PendingEntry
  <2> HIDE DEF entry, data
  <2> QED BY <1>2, <2>1 DEF PendingRequests
<1>8. \A l \in Clients, p \in Requests : pending[l][p] # None /\ pending[l][p].flight = f => l = k /\ p = q
  BY NoneAssumption DEF Waits, Held, ClientOf, RequestOf
<1>9. settled \in PendingRequests =>
        Released(settled) = None \/ (Released(settled) \in PendingRequests /\ SamePending(Released(settled), settled))
  <2> HIDE DEF settled
  <2> QED BY DEF Released, PendingRequests, SamePending
<1>10. /\ pending' \in PendingType
       /\ \A l \in Clients, p \in Requests :
            pending'[l][p] # None =>
              /\ pending[l][p] # None
              /\ \/ pending[l][p].flight # f /\ SamePending(pending'[l][p], pending[l][p])
                 \/ /\ pending[l][p].flight = f /\ pending'[l][p].flight = None
                    /\ pending'[l][p].outcome = o /\ pending'[l][p].start = pending[l][p].start
                    /\ pending'[l][p].data = data
  <2> HIDE DEF k, q, settled, data
  <2>1. CASE entry = None
    BY <1>1, <1>3, <1>8, <2>1 DEF TypeOK, PendingType, SamePending
  <2>2. CASE entry # None
    <3>1. pending' = [pending EXCEPT ![k][q] = Released(settled)]
      BY <1>3, <2>2
    <3>2. /\ pending' \in PendingType
          /\ pending'[k][q] = Released(settled)
          /\ \A l \in Clients, p \in Requests : ~(l = k /\ p = q) => pending'[l][p] = pending[l][p]
      BY <1>1, <1>7, <1>9, <2>2, <3>1 DEF TypeOK, PendingType
    <3> QED BY <1>7, <1>8, <1>9, <2>2, <3>2 DEF SamePending
  <2> QED BY <2>1, <2>2
<1> HIDE DEF there
<1> QED BY <1>3, <1>4, <1>5, <1>6, <1>10

-----------------------------------------------------------------------------
(* Types, and who waits for whom, in every step.                           *)

LEMMA CallOf ==
  ASSUME NEW k, NEW q, NEW a, NEW g, NEW t
  PROVE  LET x == Call("waiting", k, q, a, g, t) IN
         x.pc = "waiting" /\ x.client = k /\ x.request = q /\ x.flight = g /\ x.made = t
BY DEF Call

LEMMA EnterWaits ==
  ASSUME TypeOK, Waits, NEW c \in Calls, call[c].pc \in {"idle", "delayed"},
         NEW from \in There, from.call = call, from.stale = stale,
         NEW k \in Clients, NEW q \in Requests, NEW a \in Nat, NEW made \in Nat,
         Enter(from, c, k, q, a, made)
  PROVE  Waits'
<1>1. /\ flight[c].pc = "none"
      /\ \A d \in Calls \ {c} : call'[d] = call[d] /\ flight'[d] = flight[d]
      /\ \/ /\ call'[c].pc \in {"delayed", "ended"} /\ flight' = flight
         \/ /\ call'[c] = Call("waiting", k, q, a, pending[k][q].flight, made) /\ flight' = flight
            /\ pending[k][q] # None /\ pending[k][q].flight # None
         \/ /\ call'[c] = Call("waiting", k, q, a, c, made) /\ flight'[c].pc = "fetch"
      /\ \A l \in Clients, p \in Requests :
           pending'[l][p] # None =>
             \/ pending[l][p] # None /\ SamePending(pending'[l][p], pending[l][p])
             \/ /\ l = k /\ p = q /\ call'[c] = Call("waiting", k, q, a, c, made)
                /\ pending'[k][q].flight = c /\ pending'[k][q].outcome = None
  BY EnterParts
<1>2. call'[c].pc = "waiting" =>
        /\ call'[c].client = k /\ call'[c].request = q
        /\ \/ call'[c].flight = c /\ flight'[c].pc = "fetch"
           \/ call'[c].flight = pending[k][q].flight /\ pending[k][q] # None /\ pending[k][q].flight # None
  BY <1>1, CallOf
<1>3. \A l \in Clients, p \in Requests : pending[l][p] # None => pending[l][p].flight \in Calls \cup {None}
  BY PendingEntry
<1>4. Owned'
  BY <1>1, CallOf DEF Waits, Owned
<1>5. Joined'
  BY <1>1, <1>2, <1>3 DEF Waits, Joined, Held
<1>6. Held'
  <2>1. call'[c] = Call("waiting", k, q, a, c, made) =>
          call'[c].client = k /\ call'[c].request = q /\ flight'[c].pc # "none"
    <3>1. call'[c] = Call("waiting", k, q, a, c, made) => call'[c].flight = c
      BY CallOf
    <3>2. pending[k][q] # None /\ pending[k][q].flight # None => pending[k][q].flight # c
      BY <1>1 DEF Waits, Held
    <3> QED BY <1>1, <1>2, <3>1, <3>2, CallOf
  <2>2. ASSUME NEW l \in Clients, NEW p \in Requests, pending'[l][p] # None
        PROVE  LET e == pending'[l][p] IN
               /\ e.flight = None => e.outcome # None
               /\ e.flight # None =>
                    /\ e.outcome = None /\ flight'[e.flight].pc # "none"
                    /\ call'[e.flight].client = l /\ call'[e.flight].request = p
    <3>1. CASE pending[l][p] # None /\ SamePending(pending'[l][p], pending[l][p])
      BY <1>1, <1>3, <3>1 DEF Waits, Held, SamePending
    <3>2. CASE /\ l = k /\ p = q /\ call'[c] = Call("waiting", k, q, a, c, made)
               /\ pending'[k][q].flight = c /\ pending'[k][q].outcome = None
      BY <2>1, <3>2, NoneAssumption
    <3> QED BY <1>1, <2>2, <3>1, <3>2
  <2> QED BY <2>2 DEF Held
<1>7. Carried'
  BY <1>1 DEF Waits, Carried
<1> QED BY <1>4, <1>5, <1>6, <1>7 DEF Waits

LEMMA SettleWaits ==
  ASSUME TypeOK, Waits, NEW f \in Calls, flight[f].pc \notin {"none", "refresh"},
         NEW o \in Outcomes, Settle(f, o)
  PROVE  Waits'
<1>1. /\ flight'[f].pc = "none" /\ \A g \in Calls \ {f} : flight'[g] = flight[g]
      /\ \A c \in Calls :
           \/ /\ call[c].pc = "waiting" /\ call[c].flight = f
              /\ call'[c].pc \in {"delayed", "ended"}
           \/ ~(call[c].pc = "waiting" /\ call[c].flight = f) /\ call'[c] = call[c]
      /\ \A l \in Clients, p \in Requests :
           pending'[l][p] # None =>
             /\ pending[l][p] # None
             /\ \/ pending[l][p].flight # f /\ SamePending(pending'[l][p], pending[l][p])
                \/ pending[l][p].flight = f /\ pending'[l][p].flight = None /\ pending'[l][p].outcome = o
  BY SettleParts DEF TypeOK, NoFlight, Flight
<1>2. \A l \in Clients, p \in Requests : pending[l][p] # None => pending[l][p].flight \in Calls \cup {None}
  BY PendingEntry
<1>3. \A g \in Calls \ {f} : flight[g].pc # "none" => call'[g] = call[g]
  BY <1>1 DEF Waits, Owned
<1>4. Owned'
  BY <1>1, <1>3 DEF Waits, Owned
<1>5. Joined'
  BY <1>1, <1>3 DEF Waits, Joined
<1>6. Held'
  BY <1>1, <1>2, <1>3, NoneAssumption DEF Waits, Held, SamePending
<1>7. Carried'
  BY <1>1, <1>3 DEF Waits, Carried
<1> QED BY <1>4, <1>5, <1>6, <1>7 DEF Waits

LEMMA TypeOKParts ==
  TypeOK <=> /\ clock \in Nat
             /\ stored \in [access : Nat, refresh : Nat] /\ server \in [good : Nat, expired : Nat]
             /\ cache \in CacheType /\ breaker \in BreakerType /\ pending \in PendingType
             /\ flight \in FlightType /\ call \in CallType /\ failed \in FailedType
             /\ troubled \in BOOLEAN /\ stale \in BOOLEAN /\ uncaused \in BOOLEAN
BY DEF TypeOK, CacheType, BreakerType, PendingType, FlightType, CallType, FailedType

LEMMA TypeOKNext ==
  ASSUME clock' \in Nat, stored' \in [access : Nat, refresh : Nat], server' \in [good : Nat, expired : Nat],
         cache' \in CacheType, breaker' \in BreakerType, pending' \in PendingType,
         flight' \in FlightType, call' \in CallType, failed' \in FailedType,
         troubled' \in BOOLEAN, stale' \in BOOLEAN, uncaused' \in BOOLEAN
  PROVE  TypeOK'
BY DEF TypeOK, CacheType, BreakerType, PendingType, FlightType, CallType, FailedType

LEMMA LookedType ==
  ASSUME TypeOK, NEW k \in Clients, NEW q \in Requests
  PROVE  Looked(k, q) \in CacheType /\ (Dated(cache) => Dated(Looked(k, q)))
<1> DEFINE x == [cache EXCEPT ![k][q] = None]
<1>1. Looked(k, q) \in {cache, x}
  BY DEF Looked
<1>2. cache \in CacheType
  BY DEF TypeOK, CacheType
<1>3. x \in CacheType /\ \A l \in Clients, p \in Requests : x[l][p] \in {cache[l][p], None}
  BY <1>2 DEF CacheType
<1> HIDE DEF x
<1> QED BY <1>1, <1>2, <1>3 DEF Dated

LEMMA AdmittedType ==
  ASSUME TypeOK, NEW k \in Clients, NEW q \in Requests
  PROVE  /\ Admitted(k, q) \in There /\ Admitted(k, q).call = call /\ Admitted(k, q).stale = stale
         /\ CountsAgree(breaker, failed) => CountsAgree(Admitted(k, q).breaker, Admitted(k, q).failed)
         /\ Dated(cache) => Dated(Admitted(k, q).cache)
<1> DEFINE x == Admitted(k, q)
           b == breaker[k][Endpoint(q)]
<1>1. x = [call |-> call, breaker |-> [breaker EXCEPT ![k][Endpoint(q)] = HalfOpen(b)],
           cache |-> Looked(k, q), failed |-> failed, stale |-> stale]
  BY DEF Admitted
<1>2. b \in Breakers
  BY EndpointType DEF TypeOK
<1> HIDE DEF b, x
<1>3. /\ HalfOpen(b) \in Breakers /\ HalfOpen(b).failureCount = b.failureCount
      /\ HalfOpen(b).state # "OPEN"
  BY <1>2 DEF HalfOpen, Breakers
<1>4. x \in There
  BY <1>1, <1>3, LookedType, EndpointType DEF There, TypeOK, CallType, BreakerType, FailedType
<1>5. CountsAgree(breaker, failed) => CountsAgree(x.breaker, x.failed)
  <2>1. \A l \in Clients, e \in Endpoints :
          x.breaker[l][e] = breaker[l][e] \/ (l = k /\ e = Endpoint(q) /\ x.breaker[l][e] = HalfOpen(b))
    BY <1>1, EndpointType DEF TypeOK
  <2>2. x.failed = failed
    BY <1>1
  <2> QED BY <1>3, <2>1, <2>2 DEF CountsAgree, b
<1> QED BY <1>1, <1>4, <1>5, LookedType DEF x

(* A flight that goes on: all that can change are flights, none of which   *)
(* begins or ends, and neither the calls nor what is pending.              *)
LEMMA FlightsGoOn ==
  ASSUME TypeOK, Waits, call' = call, pending' = pending,
         \A f \in Calls : flight'[f].pc = "none" <=> flight[f].pc = "none",
         \A f \in Calls : flight'[f].pc = "await" =>
           \E g \in Calls : flight'[g].pc = "refresh" /\ call[g].client = call[f].client
  PROVE  Waits'
<1>1. Owned' /\ Joined'
  BY DEF Waits, Owned, Joined
<1>2. Held'
  <2>1. \A l \in Clients, p \in Requests : pending[l][p] # None => pending[l][p].flight \in Calls \cup {None}
    BY PendingEntry
  <2> QED BY <2>1 DEF Waits, Held
<1>3. Carried'
  BY DEF Carried
<1> QED BY <1>1, <1>2, <1>3 DEF Waits

LEMMA AskedType == ASSUME NEW k \in Clients, NEW q \in Asks[k] PROVE q \in Requests
BY ClientAssumption

LEMMA PossibleType == ASSUME NEW f, NEW o \in Possible(f) PROVE o \in Outcomes
BY DEF Possible

\* A call that begins or tries again.
Attempts(c) == Retry(c) \/ \E k \in Clients : \E q \in Asks[k] : Begin(c, k, q)

\* What such a call enters the deduplication with.
Enters(c, from, k, q, a, made) ==
  /\ from \in There /\ k \in Clients /\ q \in Requests /\ a \in Nat /\ made \in Nat
  /\ from.call = call /\ from.stale = stale /\ made \in {clock, call[c].made}
  /\ CountsAgree(breaker, failed) => CountsAgree(from.breaker, from.failed)
  /\ Dated(cache) => Dated(from.cache)
  /\ Enter(from, c, k, q, a, made)

LEMMA AttemptEnters ==
  ASSUME TypeOK, NEW c \in Calls, Attempts(c)
  PROVE  /\ call[c].pc \in {"idle", "delayed"} /\ UNCHANGED <<clock, stored, server, troubled, uncaused>>
         /\ \E from, k, q, a, made : Enters(c, from, k, q, a, made)
<1>1. CASE Retry(c)
  <2>1. /\ call[c] \in UnderWay /\ call[c].client \in Clients /\ call[c].request \in Requests
        /\ call[c].attempt + 1 \in Nat /\ call[c].made \in Nat
    <3>1. call[c] \in UnderWay
      BY <1>1, CallTypes DEF Retry, TypeOK
    <3> QED BY <3>1 DEF UnderWay
  <2>2. /\ Here.call = call /\ Here.stale = stale /\ Here.breaker = breaker
        /\ Here.failed = failed /\ Here.cache = cache
    BY DEF Here
  <2>3. Enters(c, Here, call[c].client, call[c].request, call[c].attempt + 1, call[c].made)
    BY <1>1, <2>1, <2>2, HereType DEF Retry, Enters
  <2> QED BY <1>1, <2>3 DEF Retry
<1>2. ASSUME NEW k \in Clients, NEW q \in Asks[k], Begin(c, k, q)
      PROVE  /\ call[c].pc = "idle" /\ UNCHANGED <<clock, stored, server, troubled, uncaused>>
             /\ Enters(c, Admitted(k, q), k, q, 1, clock)
  <2>1. clock \in Nat /\ 1 \in Nat
    BY DEF TypeOK
  <2> QED BY <1>2, <2>1, AskedType, AdmittedType DEF Begin, Makes, Enters
<1> QED BY <1>1, <1>2 DEF Attempts

LEMMA CarryTokenType ==
  ASSUME TypeOK, NEW f \in Calls, CarryToken(f)
  PROVE  /\ flight' \in FlightType /\ troubled' \in BOOLEAN
         /\ flight'[f].pc = "refresh" /\ flight'[f].token = stored.refresh
         /\ \A g \in Calls \ {f} : flight'[g] = flight[g]
<1> DEFINE x == Flight("refresh", stored.refresh, 0)
<1>1. x \in [pc : {"refresh"}, token : Nat, start : Nat] /\ x.token = stored.refresh
  <2>1. stored.refresh \in Nat
    BY DEF TypeOK
  <2> QED BY <2>1 DEF Flight
<1>2. flight' = [flight EXCEPT ![f] = x]
  BY DEF CarryToken
<1> HIDE DEF x
<1>3. x.pc = "refresh" /\ x \in [pc : {"none", "fetch", "await", "refresh", "denied", "refetch"}, token : Nat, start : Nat]
  BY <1>1
<1>4. flight' \in FlightType /\ flight'[f] = x /\ \A g \in Calls \ {f} : flight'[g] = flight[g]
  BY <1>2, <1>3 DEF TypeOK, FlightType
<1>5. troubled' \in BOOLEAN
  BY DEF TypeOK, CarryToken
<1> QED BY <1>1, <1>3, <1>4, <1>5

LEMMA EndRefreshType ==
  ASSUME TypeOK, NEW f \in Calls,
         NEW next \in [pc : {"refetch", "denied"}, token : Nat, start : Nat], EndRefresh(f, next)
  PROVE  /\ flight' \in FlightType
         /\ \A g \in Calls : flight'[g] = IF g = f \/ (flight[g].pc = "await" /\ call[g].client = call[f].client)
                                       THEN next ELSE flight[g]
BY DEF TypeOK, EndRefresh, FlightType, ClientOf

LEMMA TypeStep == TypeOK /\ Waits /\ [Next]_vars => TypeOK' /\ Waits'
<1> SUFFICES ASSUME TypeOK, Waits, [Next]_vars PROVE TypeOK' /\ Waits'
  OBVIOUS
<1>1. ASSUME NEW c \in Calls, NEW k \in Clients, NEW q \in Asks[k],
             AnswerFromCache(c, k, q) \/ ShutOut(c, k, q)
      PROVE  TypeOK' /\ Waits'
  <2>1. call' = [call EXCEPT ![c] = EndedCall] /\ flight' = flight /\ pending' = pending
    BY <1>1 DEF AnswerFromCache, ShutOut
  <2>2. cache' \in CacheType
    BY <1>1, LookedType, AskedType, TypeOKParts DEF AnswerFromCache, ShutOut
  <2>3. call' \in CallType
    BY <2>1 DEF TypeOK, CallType
  <2>4. stale' \in BOOLEAN /\ uncaused' \in BOOLEAN
    BY <1>1 DEF AnswerFromCache, ShutOut, TypeOK
  <2>5. TypeOK'
    <3>1. /\ clock' = clock /\ stored' = stored /\ server' = server /\ breaker' = breaker
          /\ failed' = failed /\ troubled' = troubled
      BY <1>1 DEF AnswerFromCache, ShutOut
    <3> QED BY <2>1, <2>2, <2>3, <2>4, <3>1, TypeOKParts, TypeOKNext
  <2>6. flight[c].pc = "none"
    BY <1>1 DEF AnswerFromCache, ShutOut, Makes, Waits, Owned
  <2>7. call'[c].pc = "ended" /\ \A d \in Calls \ {c} : call'[d] = call[d]
    BY <2>1, CallTypes DEF TypeOK
  <2>8. Owned' /\ Carried' /\ Joined'
    BY <2>1, <2>6, <2>7 DEF Waits, Owned, Carried, Joined
  <2>9. \A l \in Clients, p \in Requests : pending[l][p] # None => pending[l][p].flight \in Calls \cup {None}
    BY PendingEntry
  <2>10. Held'
    BY <2>1, <2>6, <2>7, <2>9 DEF Waits, Held
  <2> QED BY <2>5, <2>8, <2>10 DEF Waits
<1>2. ASSUME NEW c \in Calls, Attempts(c)
      PROVE  TypeOK' /\ Waits'
  <2>1. call[c].pc \in {"idle", "delayed"} /\ UNCHANGED <<clock, stored, server, troubled, uncaused>>
    BY <1>2, AttemptEnters
  <2>2. PICK from, k, q, a, made : Enters(c, from, k, q, a, made)
    BY <1>2, AttemptEnters
  <2>3. Waits'
    BY <2>1, <2>2, EnterWaits DEF Enters
  <2>4. /\ call' \in CallType /\ breaker' \in BreakerType /\ cache' \in CacheType
        /\ failed' \in FailedType /\ stale' \in BOOLEAN
        /\ flight' \in FlightType /\ pending' \in PendingType
    BY <2>1, <2>2, EnterParts DEF Enters
  <2> QED BY <2>1, <2>3, <2>4, TypeOKParts, TypeOKNext
<1>4. ASSUME NEW f \in Calls, NEW o \in Outcomes, flight[f].pc \notin {"none", "refresh"}, Settle(f, o),
             UNCHANGED <<clock, stored, server, troubled, uncaused>>
      PROVE  TypeOK' /\ Waits'
  <2>1. Waits'
    BY <1>4, SettleWaits
  <2>2. /\ call' \in CallType /\ breaker' \in BreakerType /\ cache' \in CacheType
        /\ failed' \in FailedType /\ stale' \in BOOLEAN
        /\ flight' \in FlightType /\ pending' \in PendingType
    BY <1>4, SettleParts
  <2> QED BY <1>4, <2>1, <2>2, TypeOKParts, TypeOKNext
<1>5. ASSUME NEW f \in Calls, NEW o \in Outcomes, Receive(f, o)
      PROVE  TypeOK' /\ Waits'
  <2>1. flight[f].pc \notin {"none", "refresh"} /\ Settle(f, o) /\ UNCHANGED <<clock, stored, server, troubled, uncaused>>
    BY <1>5 DEF Receive
  <2> QED BY <1>4, <2>1
<1>6. ASSUME NEW f \in Calls, TryRefresh(f)
      PROVE  TypeOK' /\ Waits'
  <2>1. flight[f].pc = "fetch" /\ UNCHANGED <<clock, stored, server, uncaused>>
    BY <1>6 DEF TryRefresh
  <2>2. CASE /\ Carriers(ClientOf(f)) # {}
             /\ flight' = [flight EXCEPT ![f] = Flight("await", 0, 0)]
             /\ UNCHANGED <<pending, call, cache, breaker, failed, stale, troubled>>
    <3>1. Flight("await", 0, 0) \in [pc : {"await"}, token : Nat, start : Nat]
      BY DEF Flight
    <3>2. flight' \in FlightType /\ flight'[f].pc = "await" /\ \A g \in Calls \ {f} : flight'[g] = flight[g]
      BY <2>2, <3>1 DEF TypeOK, FlightType
    <3>3. TypeOK'
      BY <2>1, <2>2, <3>2, TypeOKParts, TypeOKNext
    <3>4. \E g \in Calls : flight[g].pc = "refresh" /\ call[g].client = call[f].client
      BY <2>2 DEF Carriers, ClientOf
    <3>5. \A g \in Calls : flight'[g].pc = "await" =>
            \E h \in Calls : flight'[h].pc = "refresh" /\ call[h].client = call[g].client
      <4> TAKE g \in Calls
      <4>1. PICK h \in Calls : flight[h].pc = "refresh" /\ call[h].client = call[f].client
        BY <3>4
      <4>2. CASE g = f
        BY <2>1, <3>2, <4>1, <4>2
      <4>3. CASE g # f
        BY <2>1, <3>2, <4>3 DEF Waits, Carried
      <4> QED BY <4>2, <4>3
    <3>6. Waits'
      BY <2>1, <2>2, <3>2, <3>5, FlightsGoOn
    <3> QED BY <3>3, <3>6
  <2>3. CASE Settle(f, "unauthorized") /\ UNCHANGED troubled
    BY <1>4, <2>1, <2>3 DEF Outcomes
  <2>4. CASE CarryToken(f)
    <3>1. /\ flight' \in FlightType /\ troubled' \in BOOLEAN /\ flight'[f].pc = "refresh"
          /\ \A g \in Calls \ {f} : flight'[g] = flight[g]
          /\ UNCHANGED <<pending, call, cache, breaker, failed, stale>>
      BY <2>4, CarryTokenType DEF CarryToken
    <3>2. TypeOK'
      BY <2>1, <3>1, TypeOKParts, TypeOKNext
    <3>3. Waits'
      BY <2>1, <3>1, FlightsGoOn DEF Waits, Carried
    <3> QED BY <3>2, <3>3
  <2> QED BY <1>6, <2>2, <2>3, <2>4 DEF TryRefresh
<1>7. ASSUME NEW f \in Calls, GiveUp(f)
      PROVE  TypeOK' /\ Waits'
  <2>1. /\ flight[f].pc \notin {"none", "refresh"} /\ Settle(f, "unauthorized")
        /\ UNCHANGED <<clock, stored, server, troubled, uncaused>>
    BY <1>7 DEF GiveUp
  <2> QED BY <1>4, <2>1 DEF Outcomes
<1>8. ASSUME NEW f \in Calls, RefreshGranted(f) \/ RefreshFailed(f)
      PROVE  TypeOK' /\ Waits'
  <2>1. /\ UNCHANGED <<clock, cache, breaker, pending, call, failed, stale, uncaused>>
        /\ flight[f].pc = "refresh" /\ troubled' \in BOOLEAN
    BY <1>8 DEF RefreshGranted, RefreshFailed, TypeOK
  <2>2. server' \in [good : Nat, expired : Nat]
    BY <1>8 DEF RefreshGranted, RefreshFailed, TypeOK
  <2>3. stored' \in [access : Nat, refresh : Nat]
    <3>1. server'.good \in Nat
      BY <2>2
    <3> QED BY <1>8, <3>1 DEF RefreshGranted, RefreshFailed
  <2>4. PICK next \in [pc : {"refetch", "denied"}, token : Nat, start : Nat] : EndRefresh(f, next)
    <3>1. CASE RefreshGranted(f)
      BY <2>3, <3>1, SendType DEF RefreshGranted
    <3>2. CASE RefreshFailed(f)
      BY <3>2 DEF RefreshFailed, Flight
    <3> QED BY <1>8, <3>1, <3>2
  <2>5. /\ flight' \in FlightType
        /\ \A g \in Calls : flight'[g] = IF g = f \/ (flight[g].pc = "await" /\ call[g].client = call[f].client)
                                      THEN next ELSE flight[g]
    BY <2>4, EndRefreshType
  <2>6. TypeOK'
    BY <2>1, <2>2, <2>3, <2>5, TypeOKParts, TypeOKNext
  <2>7. Waits'
    <3>1. \A g \in Calls : flight'[g].pc = "none" <=> flight[g].pc = "none"
      BY <2>1, <2>4, <2>5
    <3>2. ASSUME NEW g \in Calls, flight'[g].pc = "await"
          PROVE  \E h \in Calls : flight'[h].pc = "refresh" /\ call[h].client = call[g].client
      <4>1. flight[g].pc = "await" /\ call[g].client # call[f].client
        BY <2>4, <2>5, <3>2
      <4>2. PICK h \in Calls : flight[h].pc = "refresh" /\ call[h].client = call[g].client
        BY <4>1 DEF Waits, Carried
      <4> QED BY <2>5, <4>1, <4>2
    <3> QED BY <2>1, <3>1, <3>2, FlightsGoOn
  <2> QED BY <2>6, <2>7
<1>9. ASSUME NEW k \in Clients, NEW q \in Requests, ForgetPending(k, q)
      PROVE  TypeOK' /\ Waits'
  <2>1. /\ pending' \in PendingType
        /\ \A l \in Clients, p \in Requests : pending'[l][p] # None => pending'[l][p] = pending[l][p]
    BY <1>9 DEF ForgetPending, TypeOK, PendingType
  <2>2. UNCHANGED <<clock, stored, server, cache, breaker, flight, call, troubled, failed, stale, uncaused>>
    BY <1>9 DEF ForgetPending
  <2>3. TypeOK'
    BY <2>1, <2>2, TypeOKParts, TypeOKNext
  <2>4. Waits'
    BY <2>1, <2>2 DEF Waits, Owned, Joined, Held, Carried
  <2> QED BY <2>3, <2>4
<1>10. CASE Tick
  <2>1. /\ clock' \in Nat /\ server' \in [good : Nat, expired : Nat]
        /\ UNCHANGED <<stored, cache, breaker, pending, flight, call, troubled, failed, stale, uncaused>>
    BY <1>10 DEF Tick, TypeOK
  <2>2. TypeOK'
    BY <2>1, TypeOKParts, TypeOKNext
  <2> QED BY <2>1, <2>2 DEF Waits, Owned, Joined, Held, Carried
<1>11. CASE UNCHANGED vars
  BY <1>11 DEF vars, TypeOK, Waits, Owned, Joined, Held, Carried
<1> QED BY <1>1, <1>2, <1>5, <1>6, <1>7, <1>8, <1>9, <1>10, <1>11 DEF Next, FlightStep, Attempts

LEMMA InitType == Init => TypeOK /\ Waits
<1> SUFFICES ASSUME Init PROVE TypeOK /\ Waits
  OBVIOUS
<1>1. NoCall.pc = "idle" /\ NoFlight.pc = "none" /\ NoFlight \in [pc : {"none"}, token : Nat, start : Nat]
      /\ Closed \in Breakers
  BY DEF NoCall, Call, NoFlight, Flight, Closed, Breakers
<1>2. TypeOK
  BY <1>1 DEF Init, TypeOK
<1>3. Waits
  BY <1>1 DEF Init, Waits, Owned, Joined, Held, Carried
<1> QED BY <1>2, <1>3

(* The client's caches, breakers, pending requests and flights keep their  *)
(* types, for any clients, calls, requests and timeouts.                   *)
THEOREM TypeCorrect == Spec => [](TypeOK /\ Waits)
BY InitType, TypeStep, PTL DEF Spec

(* Nobody waits in vain: the flight a call waits for, the pending request  *)
(* it may join and the refresh a flight waits for are all under way.       *)
THEOREM NoVainWait == Spec => []NobodyWaitsInVain
<1>1. TypeOK /\ Waits => NobodyWaitsInVain
  <2> SUFFICES ASSUME TypeOK, Waits PROVE NobodyWaitsInVain
    OBVIOUS
  <2>1. ASSUME NEW c \in Calls, call[c].pc = "waiting"
        PROVE  LET f == call[c].flight IN
               /\ flight[f].pc # "none"
               /\ flight[f].pc = "await" => Carriers(ClientOf(f)) # {}
    BY <2>1 DEF Waits, Joined, Carried, Carriers, ClientOf
  <2>2. ASSUME NEW k \in Clients, NEW q \in Requests, pending[k][q] # None, pending[k][q].outcome = None
        PROVE  flight[pending[k][q].flight].pc # "none"
    BY <2>2 DEF Waits, Held
  <2> QED BY <2>1, <2>2 DEF NobodyWaitsInVain
<1> QED BY <1>1, TypeCorrect, PTL

-----------------------------------------------------------------------------
(* The session.                                                            *)

(* As long as nothing went wrong outside, one flight at most carries a     *)
(* refresh token, and it is the good one, which is stored.                 *)
Session ==
  ~troubled =>
    /\ stored.refresh = server.good
    /\ \A f \in Calls : flight[f].pc = "refresh" => flight[f].token = server.good
    /\ \A f, g \in Calls : flight[f].pc = "refresh" /\ flight[g].pc = "refresh" => f = g

LEMMA SessionStays ==
  ASSUME Session, UNCHANGED <<stored, server, troubled>>,
         \A f \in Calls : flight'[f].pc = "refresh" => flight'[f] = flight[f]
  PROVE  Session'
BY DEF Session

LEMMA AttemptFlights ==
  ASSUME TypeOK, Waits, NEW c \in Calls, Attempts(c)
  PROVE  /\ flight[c].pc = "none" /\ flight'[c].pc \in {"none", "fetch"}
         /\ \A d \in Calls \ {c} : flight'[d] = flight[d]
<1>1. PICK from, k, q, a, made : Enters(c, from, k, q, a, made)
  BY AttemptEnters
<1> QED BY <1>1, AttemptEnters, EnterParts DEF Enters

LEMMA SessionStep == TypeOK /\ Waits /\ Session /\ [Next]_vars => Session'
<1> SUFFICES ASSUME TypeOK, Waits, Session, [Next]_vars PROVE Session'
  OBVIOUS
<1>1. ASSUME NEW c \in Calls, NEW k \in Clients, NEW q \in Asks[k],
             AnswerFromCache(c, k, q) \/ ShutOut(c, k, q)
      PROVE  Session'
  BY <1>1 DEF AnswerFromCache, ShutOut, Session
<1>2. ASSUME NEW c \in Calls, Attempts(c) PROVE Session'
  BY <1>2, AttemptEnters, AttemptFlights, SessionStays
<1>3. ASSUME NEW f \in Calls, NEW o \in Outcomes, flight[f].pc # "none", Settle(f, o),
             UNCHANGED <<stored, server, troubled>>
      PROVE  Session'
  BY <1>3, SessionStays DEF Settle, NoFlight, Flight, TypeOK
<1>4. ASSUME NEW f \in Calls, NEW o \in Outcomes, Receive(f, o) PROVE Session'
  BY <1>3, <1>4 DEF Receive
<1>5. ASSUME NEW f \in Calls, TryRefresh(f) PROVE Session'
  <2>1. flight[f].pc = "fetch" /\ UNCHANGED <<clock, stored, server, uncaused>>
    BY <1>5 DEF TryRefresh
  <2>2. CASE flight' = [flight EXCEPT ![f] = Flight("await", 0, 0)] /\ UNCHANGED troubled
    BY <2>1, <2>2, SessionStays DEF Flight, TypeOK
  <2>3. CASE Settle(f, "unauthorized") /\ UNCHANGED troubled
    BY <1>3, <2>1, <2>3 DEF Outcomes
  <2>4. CASE Carriers(ClientOf(f)) = {} /\ CarryToken(f)
    <3>1. /\ flight'[f].pc = "refresh" /\ flight'[f].token = stored.refresh
          /\ \A g \in Calls \ {f} : flight'[g] = flight[g]
      BY <2>4, CarryTokenType
    <3>2. troubled' = (troubled \/ \E k \in Clients \ {ClientOf(f)} : Carriers(k) # {})
      BY <2>4 DEF CarryToken
    <3>3. ASSUME ~troubled', NEW g \in Calls \ {f} PROVE flight[g].pc # "refresh"
      <4>1. flight[g].pc = "refresh" => ClientOf(g) \in Clients
        BY CallTypes DEF Waits, Owned, TypeOK, UnderWay, ClientOf
      <4> QED BY <2>4, <3>2, <3>3, <4>1 DEF Carriers
    <3> QED BY <2>1, <3>1, <3>2, <3>3 DEF Session
  <2> QED BY <1>5, <2>2, <2>3, <2>4 DEF TryRefresh
<1>6. ASSUME NEW f \in Calls, GiveUp(f) PROVE Session'
  BY <1>3, <1>6 DEF GiveUp, Outcomes
<1>7. ASSUME NEW f \in Calls, RefreshGranted(f) PROVE Session'
  <2>1. flight[f].pc = "refresh" /\ troubled' = troubled /\ stored'.refresh = server'.good
    BY <1>7 DEF RefreshGranted
  <2>2. \A g \in Calls : flight'[g].pc = "refresh" => g # f /\ flight[g].pc = "refresh"
    BY <1>7, SendType DEF RefreshGranted, EndRefresh, Send, Flight, TypeOK
  <2> QED BY <2>1, <2>2 DEF Session
<1>8. ASSUME NEW f \in Calls, RefreshFailed(f) PROVE Session'
  BY <1>8 DEF RefreshFailed, Session
<1>9. ASSUME NEW k \in Clients, NEW q \in Requests, ForgetPending(k, q) PROVE Session'
  BY <1>9 DEF ForgetPending, Session
<1>10. CASE Tick
  <2>1. server'.good = server.good
    BY <1>10 DEF Tick, TypeOK
  <2> QED BY <1>10, <2>1 DEF Tick, Session
<1>11. CASE UNCHANGED vars
  BY <1>11 DEF vars, Session
<1> QED BY <1>1, <1>2, <1>4, <1>5, <1>6, <1>7, <1>8, <1>9, <1>10, <1>11 DEF Next, FlightStep, Attempts

(* One client never logs its user out: as long as no refresh fails on the  *)
(* way and no two clients refresh at once, what is stored is what the      *)
(* service will accept.                                                    *)
THEOREM SessionIsKept == Spec => []OneClientKeepsItsSession
<1>1. Init => Session
  BY DEF Init, Session, NoFlight, Flight
<1>2. Session => OneClientKeepsItsSession
  BY DEF Session, OneClientKeepsItsSession
<1> QED BY <1>1, <1>2, SessionStep, TypeCorrect, PTL DEF Spec

-----------------------------------------------------------------------------
(* The breakers.                                                           *)

Counted == ~uncaused /\ CountsAgree(breaker, failed)

LEMMA CountedStep == TypeOK /\ Waits /\ Counted /\ [Next]_vars => Counted'
<1> SUFFICES ASSUME TypeOK, Waits, Counted, [Next]_vars PROVE Counted'
  OBVIOUS
<1>1. ASSUME UNCHANGED <<breaker, failed, uncaused>> PROVE Counted'
  BY <1>1 DEF Counted, CountsAgree
<1>2. ASSUME NEW f \in Calls, NEW o \in Outcomes, flight[f].pc # "none", Settle(f, o), uncaused' = uncaused
      PROVE  Counted'
  <2>1. CountsAgree(breaker', failed')
    BY <1>2, SettleParts DEF Counted
  <2> QED BY <1>2, <2>1 DEF Counted, CountsAgree
<1>3. ASSUME NEW c \in Calls, NEW k \in Clients, NEW q \in Asks[k], AnswerFromCache(c, k, q)
      PROVE  Counted'
  BY <1>1, <1>3 DEF AnswerFromCache
<1>4. ASSUME NEW c \in Calls, NEW k \in Clients, NEW q \in Asks[k], ShutOut(c, k, q)
      PROVE  Counted'
  <2>1. Endpoint(q) \in Endpoints
    BY AskedType, EndpointType
  <2>2. /\ breaker[k][Endpoint(q)] \in Breakers /\ breaker[k][Endpoint(q)].state = "OPEN"
        /\ UNCHANGED <<breaker, failed>> /\ uncaused' = (uncaused \/ failed[k][Endpoint(q)] < FailureThreshold)
    BY <1>4, <2>1 DEF ShutOut, CanAttempt, TypeOK
  <2>3. failed[k][Endpoint(q)] \in Nat /\ failed[k][Endpoint(q)] >= FailureThreshold
    BY <2>1, <2>2 DEF Counted, CountsAgree, TypeOK
  <2>4. ~(failed[k][Endpoint(q)] < FailureThreshold)
    BY <2>3, ClientAssumption
  <2>5. ~uncaused'
    BY <2>2, <2>4 DEF Counted
  <2> QED BY <2>2, <2>5 DEF Counted, CountsAgree
<1>5. ASSUME NEW c \in Calls, Attempts(c) PROVE Counted'
  <2>1. PICK from, k, q, a, made : Enters(c, from, k, q, a, made)
    BY <1>5, AttemptEnters
  <2>2. CountsAgree(breaker', failed') /\ uncaused' = uncaused
    BY <1>5, <2>1, AttemptEnters, EnterParts DEF Enters, Counted
  <2> QED BY <2>2 DEF Counted, CountsAgree
<1>6. ASSUME NEW f \in Calls, NEW o \in Outcomes, Receive(f, o) PROVE Counted'
  BY <1>2, <1>6 DEF Receive
<1>7. ASSUME NEW f \in Calls, TryRefresh(f) PROVE Counted'
  BY <1>1, <1>2, <1>7 DEF TryRefresh, CarryToken, Outcomes
<1>8. ASSUME NEW f \in Calls, GiveUp(f) PROVE Counted'
  BY <1>2, <1>8 DEF GiveUp, Outcomes
<1>9. ASSUME NEW f \in Calls, RefreshGranted(f) \/ RefreshFailed(f) PROVE Counted'
  BY <1>1, <1>9 DEF RefreshGranted, RefreshFailed
<1>10. ASSUME NEW k \in Clients, NEW q \in Requests, ForgetPending(k, q) PROVE Counted'
  BY <1>1, <1>10 DEF ForgetPending
<1>11. CASE Tick
  BY <1>1, <1>11 DEF Tick
<1>12. CASE UNCHANGED vars
  BY <1>1, <1>12 DEF vars
<1> QED BY <1>3, <1>4, <1>5, <1>6, <1>7, <1>8, <1>9, <1>10, <1>11, <1>12 DEF Next, FlightStep, Attempts

(* A call is shut out only after FailureThreshold failures since the last  *)
(* success of its endpoint, however calls overtake one another.            *)
THEOREM ShutOutsHaveCause == Spec => []ShutOutForCause
<1>1. Init => Counted
  BY DEF Init, Counted, CountsAgree, Closed
<1>2. Counted => ShutOutForCause
  BY DEF Counted, ShutOutForCause
<1> QED BY <1>1, <1>2, CountedStep, TypeCorrect, PTL DEF Spec

-----------------------------------------------------------------------------
(* What a call will be given was asked for at most PendingTimeout before.  *)

\* A flight that has sent its fetch.
Sends(g) == g.pc \in {"fetch", "refetch"}

\* The call x waits for the flight g at time t.
CallRecent(x, g, t) ==
  /\ x.made <= t
  /\ x.pc = "waiting" /\ Sends(g) => x.made <= g.start + PendingTimeout

\* The pending request e is that of the flight g, or has settled.
EntryRecent(e, g, t) ==
  /\ e.start <= t /\ t <= e.start + PendingTimeout
  /\ e.flight # None /\ Sends(g) => e.start <= g.start
  /\ e.outcome \in Good => e.start <= e.data

CallsRecent == \A c \in Calls : CallRecent(call[c], flight[call[c].flight], clock)
PendingRecent ==
  \A k \in Clients : \A q \in Requests : pending[k][q] # None =>
    EntryRecent(pending[k][q], flight[pending[k][q].flight], clock)
Recent == ~stale /\ Dated(cache) /\ CallsRecent /\ PendingRecent

\* A flight goes on as g, sends at time t, or no longer sends.
GoesOn(g, h, t) == h = g \/ ~Sends(h) \/ h.start = t

LEMMA CallStays ==
  ASSUME NEW x, NEW g, NEW h, NEW t \in Nat, x.made \in Nat, CallRecent(x, g, t),
         x.pc = "waiting" => GoesOn(g, h, t)
  PROVE  CallRecent(x, h, t)
BY ClientAssumption DEF CallRecent, GoesOn

LEMMA EntryStays ==
  ASSUME NEW e, NEW d, NEW g, NEW h, NEW t \in Nat, e.start \in Nat, EntryRecent(e, g, t),
         SamePending(d, e), e.flight # None => GoesOn(g, h, t)
  PROVE  EntryRecent(d, h, t)
BY ClientAssumption DEF EntryRecent, GoesOn, SamePending

LEMMA RecentStays ==
  ASSUME TypeOK, Waits, Recent, clock' = clock, ~stale', Dated(cache'),
         \A g \in Calls : GoesOn(flight[g], flight'[g], clock),
         \A c \in Calls : call'[c] = call[c] \/ CallRecent(call'[c], flight'[call'[c].flight], clock),
         \A k \in Clients : \A q \in Requests : pending'[k][q] # None =>
           \/ pending[k][q] # None /\ SamePending(pending'[k][q], pending[k][q])
           \/ EntryRecent(pending'[k][q], flight'[pending'[k][q].flight], clock)
  PROVE  Recent'
<1>1. clock \in Nat /\ \A c \in Calls : call[c].made \in Nat
  BY CallTypes DEF TypeOK
<1>2. ASSUME NEW c \in Calls PROVE CallRecent(call'[c], flight'[call'[c].flight], clock)
  <2>1. CASE call'[c] = call[c]
    <3>1. call[c].pc = "waiting" => GoesOn(flight[call[c].flight], flight'[call[c].flight], clock)
      BY DEF Waits, Joined
    <3>2. CallRecent(call[c], flight[call[c].flight], clock)
      BY DEF Recent, CallsRecent
    <3>3. CallRecent(call[c], flight'[call[c].flight], clock)
      BY <1>1, <3>1, <3>2, CallStays
    <3> QED BY <2>1, <3>3
  <2> QED BY <2>1
<1>3. ASSUME NEW k \in Clients, NEW q \in Requests, pending'[k][q] # None
      PROVE  EntryRecent(pending'[k][q], flight'[pending'[k][q].flight], clock)
  <2>1. CASE pending[k][q] # None /\ SamePending(pending'[k][q], pending[k][q])
    <3>1. pending[k][q].start \in Nat /\ pending[k][q].flight \in Calls \cup {None}
      BY <2>1, PendingEntry
    <3>2. EntryRecent(pending[k][q], flight[pending[k][q].flight], clock)
      BY <2>1 DEF Recent, PendingRecent
    <3>3. pending[k][q].flight # None =>
            GoesOn(flight[pending[k][q].flight], flight'[pending[k][q].flight], clock)
      BY <3>1
    <3>4. pending'[k][q].flight = pending[k][q].flight
      BY <2>1 DEF SamePending
    <3> QED BY <1>1, <2>1, <3>1, <3>2, <3>3, <3>4, EntryStays
  <2> QED BY <1>3, <2>1
<1>4. CallsRecent'
  BY <1>2 DEF CallsRecent
<1>5. PendingRecent'
  BY <1>3 DEF PendingRecent
<1> QED BY <1>4, <1>5 DEF Recent, Dated

LEMMA SettleRecent ==
  ASSUME TypeOK, Waits, Recent, NEW f \in Calls, flight[f].pc # "none", NEW o \in Outcomes,
         o \in Good => Sends(flight[f]), Settle(f, o), clock' = clock
  PROVE  Recent'
<1>1. /\ flight'[f].pc = "none" /\ \A g \in Calls \ {f} : flight'[g] = flight[g]
      /\ \A c \in Calls :
           \/ /\ call'[c].pc \in {"delayed", "ended"} /\ call'[c].made \in {0, call[c].made}
           \/ call'[c] = call[c]
      /\ \A l \in Clients, p \in Requests :
           pending'[l][p] # None =>
             /\ pending[l][p] # None
             /\ \/ SamePending(pending'[l][p], pending[l][p])
                \/ /\ pending[l][p].flight = f /\ pending'[l][p].flight = None
                   /\ pending'[l][p].outcome = o /\ pending'[l][p].start = pending[l][p].start
                   /\ o \in Good => pending'[l][p].data = flight[f].start
  BY SettleParts DEF TypeOK, NoFlight, Flight
<1>2. flight[f].start \in Nat /\ clock \in Nat
  BY DEF TypeOK
<1>3. \A g \in Calls : GoesOn(flight[g], flight'[g], clock)
  BY <1>1 DEF GoesOn, Sends
<1>4. Dated(cache')
  BY SettleParts DEF Recent
<1>5. ~stale'
  <2>1. ASSUME o \in Good, NEW c \in Calls, call[c].pc = "waiting", call[c].flight = f
        PROVE  call[c].made <= flight[f].start + CacheTTL
    <3>1. call[c].made \in Nat /\ call[c].made <= flight[f].start + PendingTimeout
      BY <2>1, CallTypes DEF TypeOK, Recent, CallsRecent, CallRecent
    <3> QED BY <1>2, <3>1, ClientAssumption
  <2> QED BY <2>1, SettleParts DEF Recent
<1>6. ASSUME NEW c \in Calls, call'[c] # call[c]
      PROVE  CallRecent(call'[c], flight'[call'[c].flight], clock)
  <2>1. call'[c].pc # "waiting" /\ call'[c].made \in {0, call[c].made}
    BY <1>1, <1>6
  <2>2. call[c].made <= clock
    BY DEF Recent, CallsRecent, CallRecent
  <2>3. call'[c].made <= clock
    BY <1>2, <2>1, <2>2
  <2> QED BY <2>1, <2>3 DEF CallRecent
<1>7. ASSUME NEW l \in Clients, NEW p \in Requests, pending'[l][p] # None,
             ~SamePending(pending'[l][p], pending[l][p])
      PROVE  EntryRecent(pending'[l][p], flight'[pending'[l][p].flight], clock)
  <2>1. /\ pending[l][p] # None /\ pending[l][p].flight = f /\ pending'[l][p].flight = None
        /\ pending'[l][p].outcome = o /\ pending'[l][p].start = pending[l][p].start
        /\ o \in Good => pending'[l][p].data = flight[f].start
    BY <1>1, <1>7
  <2>2. EntryRecent(pending[l][p], flight[f], clock)
    BY <2>1 DEF Recent, PendingRecent
  <2>3. f # None
    BY NoneAssumption
  <2> QED BY <2>1, <2>2, <2>3 DEF EntryRecent
<1> QED BY <1>1, <1>3, <1>4, <1>5, <1>6, <1>7, RecentStays

LEMMA AttemptRecent ==
  ASSUME TypeOK, Waits, Recent, NEW c \in Calls, Attempts(c)
  PROVE  Recent'
<1>1. PICK from, k, q, a, made : Enters(c, from, k, q, a, made)
  BY AttemptEnters
<1>2. call[c].pc \in {"idle", "delayed"} /\ clock' = clock
  BY AttemptEnters
<1>3. k \in Clients /\ q \in Requests /\ made \in Nat /\ clock \in Nat
  BY <1>1 DEF Enters, TypeOK
<1>4. made <= clock
  <2>1. made = clock \/ made = call[c].made
    BY <1>1 DEF Enters
  <2>2. call[c].made <= clock
    BY DEF Recent, CallsRecent, CallRecent
  <2> QED BY <1>3, <2>1, <2>2
<1>5. /\ flight[c].pc = "none"
      /\ \A d \in Calls \ {c} : call'[d] = call[d] /\ flight'[d] = flight[d]
      /\ call'[c].made \in {0, made}
      /\ \/ /\ call'[c].pc \in {"delayed", "ended"} /\ flight' = flight
         \/ /\ call'[c] = Call("waiting", k, q, a, pending[k][q].flight, made) /\ flight' = flight
            /\ pending[k][q] # None /\ pending[k][q].flight # None
         \/ /\ call'[c] = Call("waiting", k, q, a, c, made)
            /\ flight'[c].pc = "fetch" /\ flight'[c].start = clock
      /\ \A l \in Clients, p \in Requests :
           pending'[l][p] # None =>
             \/ pending[l][p] # None /\ SamePending(pending'[l][p], pending[l][p])
             \/ /\ l = k /\ p = q /\ call'[c] = Call("waiting", k, q, a, c, made)
                /\ pending'[k][q].flight = c /\ pending'[k][q].outcome = None
                /\ pending'[k][q].start = clock
      /\ ~stale /\ (pending[k][q] # None /\ pending[k][q].outcome \in Good => made <= pending[k][q].data + CacheTTL)
           => ~stale'
  BY <1>1, <1>2, EnterParts DEF Enters
<1>6. Dated(cache')
  BY <1>1, <1>2, EnterParts DEF Enters, Recent
<1>7. pending[k][q] # None =>
        /\ pending[k][q].flight \in Calls \cup {None} /\ pending[k][q].data \in Nat /\ pending[k][q].start \in Nat
        /\ EntryRecent(pending[k][q], flight[pending[k][q].flight], clock)
  BY <1>3, PendingEntry DEF Recent, PendingRecent
<1>8. ~stale'
  <2>1. ASSUME pending[k][q] # None, pending[k][q].outcome \in Good
        PROVE  made <= pending[k][q].data + CacheTTL
    <3>1. /\ pending[k][q].data \in Nat /\ pending[k][q].start \in Nat
          /\ pending[k][q].start <= pending[k][q].data /\ clock <= pending[k][q].start + PendingTimeout
      BY <1>7, <2>1 DEF EntryRecent
    <3> QED BY <1>3, <1>4, <3>1, ClientAssumption
  <2> QED BY <1>5, <2>1 DEF Recent
<1>9. \A g \in Calls : GoesOn(flight[g], flight'[g], clock)
  <2>1. GoesOn(flight[c], flight'[c], clock)
    BY <1>5 DEF GoesOn
  <2> QED BY <1>5, <2>1 DEF GoesOn
<1>10. CallRecent(call'[c], flight'[call'[c].flight], clock)
  <2>1. call'[c].made <= clock
    BY <1>3, <1>4, <1>5
  <2>2. CASE call'[c].pc \in {"delayed", "ended"}
    BY <2>1, <2>2 DEF CallRecent
  <2>3. CASE /\ call'[c] = Call("waiting", k, q, a, pending[k][q].flight, made) /\ flight' = flight
             /\ pending[k][q] # None /\ pending[k][q].flight # None
    <3> DEFINE g == pending[k][q].flight
    <3>1. call'[c].flight = g /\ call'[c].made = made
      BY <2>3, CallOf
    <3>2. /\ pending[k][q].start \in Nat /\ clock <= pending[k][q].start + PendingTimeout
          /\ Sends(flight[g]) => pending[k][q].start <= flight[g].start
      BY <1>7, <2>3 DEF EntryRecent
    <3>3. flight[g].start \in Nat
      BY <1>7, <2>3 DEF TypeOK
    <3>4. Sends(flight[g]) => made <= flight[g].start + PendingTimeout
      <4> HIDE DEF g
      <4> QED BY <1>3, <1>4, <3>2, <3>3, ClientAssumption
    <3> QED BY <2>1, <2>3, <3>1, <3>4 DEF CallRecent
  <2>4. CASE /\ call'[c] = Call("waiting", k, q, a, c, made)
             /\ flight'[c].pc = "fetch" /\ flight'[c].start = clock
    <3>1. call'[c].flight = c /\ call'[c].made = made
      BY <2>4, CallOf
    <3>2. made <= clock + PendingTimeout
      BY <1>3, <1>4, ClientAssumption
    <3> QED BY <2>1, <2>4, <3>1, <3>2 DEF CallRecent
  <2> QED BY <1>5, <2>2, <2>3, <2>4
<1>11. ASSUME NEW l \in Clients, NEW p \in Requests, pending'[l][p] # None,
              ~(pending[l][p] # None /\ SamePending(pending'[l][p], pending[l][p]))
       PROVE  EntryRecent(pending'[l][p], flight'[pending'[l][p].flight], clock)
  <2>1. /\ l = k /\ p = q /\ call'[c] = Call("waiting", k, q, a, c, made)
        /\ pending'[k][q].flight = c /\ pending'[k][q].outcome = None
        /\ pending'[k][q].start = clock
    BY <1>5, <1>11
  <2>2. flight'[c].start = clock
    <3>1. call'[c].flight = c /\ call'[c].pc = "waiting"
      BY <2>1, CallOf
    <3>2. pending[k][q] # None /\ pending[k][q].flight # None => pending[k][q].flight # c
      BY <1>3, <1>5 DEF Waits, Held
    <3> QED BY <1>5, <3>1, <3>2, CallOf
  <2>3. None \notin Good
    BY NoneAssumption DEF Outcomes
  <2> QED BY <1>3, <2>1, <2>2, <2>3, ClientAssumption DEF EntryRecent
<1> QED BY <1>2, <1>5, <1>6, <1>8, <1>9, <1>10, <1>11, RecentStays

LEMMA RecentStep == TypeOK /\ Waits /\ Recent /\ [Next]_vars => Recent'
<1> SUFFICES ASSUME TypeOK, Waits, Recent, [Next]_vars PROVE Recent'
  OBVIOUS
<1>1. clock \in Nat /\ ~stale /\ Dated(cache)
  BY DEF TypeOK, Recent
<1>2. ASSUME clock' = clock, ~stale', Dated(cache'), call' = call,
             \A g \in Calls : GoesOn(flight[g], flight'[g], clock),
             \A k \in Clients : \A q \in Requests : pending'[k][q] \in {None, pending[k][q]}
      PROVE  Recent'
  BY <1>2, RecentStays DEF SamePending
<1>3. ASSUME NEW c \in Calls, NEW k \in Clients, NEW q \in Asks[k], AnswerFromCache(c, k, q)
      PROVE  Recent'
  <2>1. ~stale'
    <3>1. cache[k][q] \in CacheEntries /\ clock <= cache[k][q].timestamp + CacheTTL
      BY <1>3, AskedType DEF AnswerFromCache, Hit, TypeOK
    <3>2. cache[k][q].timestamp = cache[k][q].data /\ cache[k][q].data \in Nat
      BY <1>1, <1>3, <3>1, AskedType DEF Dated, AnswerFromCache, Hit, CacheEntries
    <3>3. ~(clock > cache[k][q].data + CacheTTL)
      BY <1>1, <3>1, <3>2, ClientAssumption
    <3> QED BY <1>1, <1>3, <3>3 DEF AnswerFromCache
  <2>2. /\ clock' = clock /\ cache' = cache /\ flight' = flight /\ pending' = pending
        /\ call' = [call EXCEPT ![c] = EndedCall]
    BY <1>3 DEF AnswerFromCache
  <2>3. CallRecent(EndedCall, flight[EndedCall.flight], clock)
    BY <1>1 DEF CallRecent, EndedCall, Call
  <2> QED BY <1>1, <2>1, <2>2, <2>3, RecentStays DEF TypeOK, GoesOn, SamePending
<1>4. ASSUME NEW c \in Calls, NEW k \in Clients, NEW q \in Asks[k], ShutOut(c, k, q)
      PROVE  Recent'
  <2>1. /\ clock' = clock /\ cache' = Looked(k, q) /\ flight' = flight /\ pending' = pending
        /\ call' = [call EXCEPT ![c] = EndedCall] /\ stale' = stale
    BY <1>4 DEF ShutOut
  <2>2. Dated(Looked(k, q))
    BY <1>1, AskedType, LookedType
  <2>3. CallRecent(EndedCall, flight[EndedCall.flight], clock)
    BY <1>1 DEF CallRecent, EndedCall, Call
  <2> QED BY <1>1, <2>1, <2>2, <2>3, RecentStays DEF TypeOK, GoesOn, SamePending
<1>5. ASSUME NEW c \in Calls, Attempts(c) PROVE Recent'
  BY <1>5, AttemptRecent
<1>6. ASSUME NEW f \in Calls, NEW o \in Outcomes, Receive(f, o) PROVE Recent'
  BY <1>6, SettleRecent DEF Receive, Sends
<1>7. ASSUME NEW f \in Calls, TryRefresh(f) PROVE Recent'
  <2>1. CASE Settle(f, "unauthorized")
    BY <1>7, <2>1, SettleRecent DEF TryRefresh, Outcomes, Good
  <2>2. ASSUME ~Sends(flight'[f]), \A g \in Calls \ {f} : flight'[g] = flight[g],
               UNCHANGED <<pending, call, cache, stale>>
        PROVE  Recent'
    <3>1. \A g \in Calls : GoesOn(flight[g], flight'[g], clock)
      BY <2>2 DEF GoesOn
    <3> QED BY <1>1, <1>2, <1>7, <2>2, <3>1 DEF TryRefresh
  <2>3. CASE /\ flight' = [flight EXCEPT ![f] = Flight("await", 0, 0)]
             /\ UNCHANGED <<pending, call, cache, stale>>
    BY <2>2, <2>3 DEF TypeOK, Flight, Sends
  <2>4. CASE CarryToken(f)
    BY <2>2, <2>4, CarryTokenType DEF CarryToken, Sends
  <2> QED BY <1>7, <2>1, <2>3, <2>4 DEF TryRefresh
<1>8. ASSUME NEW f \in Calls, GiveUp(f) PROVE Recent'
  BY <1>8, SettleRecent DEF GiveUp, Outcomes, Good
<1>9. ASSUME NEW f \in Calls, RefreshGranted(f) \/ RefreshFailed(f) PROVE Recent'
  <2>1. PICK next : EndRefresh(f, next) /\ (~Sends(next) \/ next.start = clock)
    <3>1. Flight("denied", 0, 0).pc = "denied"
      BY DEF Flight
    <3>2. Send("refetch", stored').start = clock
      BY DEF Send, Flight
    <3> QED BY <1>9, <3>1, <3>2 DEF RefreshGranted, RefreshFailed, Sends
  <2>2. \A g \in Calls : GoesOn(flight[g], flight'[g], clock)
    BY <2>1 DEF EndRefresh, GoesOn
  <2>3. UNCHANGED <<clock, cache, pending, call, stale>>
    BY <1>9 DEF RefreshGranted, RefreshFailed
  <2> QED BY <1>1, <1>2, <2>2, <2>3
<1>10. ASSUME NEW k \in Clients, NEW q \in Requests, ForgetPending(k, q) PROVE Recent'
  BY <1>1, <1>2, <1>10 DEF ForgetPending, GoesOn, TypeOK
<1>11. CASE Tick
  <2>1. /\ clock' = clock + 1 /\ UNCHANGED <<cache, pending, flight, call, stale>>
        /\ \A k \in Clients : \A q \in Requests : ~Overdue(k, q)
    BY <1>11 DEF Tick
  <2>2. ASSUME NEW c \in Calls PROVE CallRecent(call[c], flight[call[c].flight], clock + 1)
    <3>1. call[c].made \in Nat /\ CallRecent(call[c], flight[call[c].flight], clock)
      BY CallTypes DEF TypeOK, Recent, CallsRecent
    <3> QED BY <1>1, <3>1 DEF CallRecent
  <2>3. ASSUME NEW k \in Clients, NEW q \in Requests, pending[k][q] # None
        PROVE  EntryRecent(pending[k][q], flight[pending[k][q].flight], clock + 1)
    <3>1. pending[k][q].start \in Nat /\ EntryRecent(pending[k][q], flight[pending[k][q].flight], clock)
      BY <2>3, PendingEntry DEF Recent, PendingRecent
    <3>2. ~(clock >= pending[k][q].start + PendingTimeout)
      BY <2>1, <2>3 DEF Overdue
    <3> QED BY <1>1, <3>1, <3>2, ClientAssumption DEF EntryRecent
  <2>4. CallsRecent' /\ PendingRecent'
    BY <2>1, <2>2, <2>3 DEF CallsRecent, PendingRecent
  <2> QED BY <1>1, <2>1, <2>4 DEF Recent, Dated
<1>12. CASE UNCHANGED vars
  BY <1>1, <1>2, <1>12 DEF vars, GoesOn
<1> QED BY <1>3, <1>4, <1>5, <1>6, <1>7, <1>8, <1>9, <1>10, <1>11, <1>12 DEF Next, FlightStep, Attempts

(* A page is given what was asked for at most CacheTTL before its call,    *)
(* over the network, from the cache or from a pending request.             *)
THEOREM AnswersStayRecent == Spec => []AnswersAreRecent
<1>1. Init => Recent
  <2> SUFFICES ASSUME Init PROVE Recent
    OBVIOUS
  <2>1. \A c \in Calls : call[c].pc = "idle" /\ call[c].made = 0
    BY DEF Init, NoCall, Call
  <2>2. CallsRecent
    BY <2>1 DEF Init, CallsRecent, CallRecent
  <2> QED BY <2>2 DEF Init, Recent, Dated, PendingRecent
<1>2. Recent => AnswersAreRecent
  BY DEF Recent, AnswersAreRecent
<1> QED BY <1>1, <1>2, RecentStep, TypeCorrect, PTL DEF Spec
=============================================================================
