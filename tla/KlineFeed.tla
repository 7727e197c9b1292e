------------------------------ MODULE KlineFeed ------------------------------
(***************************************************************************)
(* The K-line WebSocket server (apps/ws-kline-service): connections, their *)
(* topic subscriptions in two indexes, one generator job per topic, the    *)
(* numbering of packets and the cache of packets that may be asked for     *)
(* again.                                                                  *)
(*                                                                         *)
(* Node runs every callback to its end, and no handler of this server      *)
(* awaits anything that is not already there, so that each message, each   *)
(* timer tick and each close is one step.  A topic without an entry in     *)
(* subscriptionsByTopic is one with no clients.  The content of packets is *)
(* reduced to its kind: a snapshot of 1000 candles or an update of one.    *)
(***************************************************************************)
EXTENDS Naturals, FiniteSets

CONSTANTS
  Clients,       \* client ids; each connection gets a new one
  Topics,        \* kline_<symbol>_<interval>
  MaxCacheSize,  \* maxCacheSize: 1000 packets
  MaxSequence    \* bound on both counters

ASSUME FeedAssumption == MaxCacheSize \in Nat \ {0} /\ MaxSequence \in Nat

Sequences == 1..MaxSequence
\* serializeKlineData: of the candles, their prices and volumes only the kind
\* of packet and its number are kept.
Packets == {"snapshot", "update"} \X Sequences

VARIABLES
  connections,           \* the clients in the map connections
  subscriptions,         \* client -> the topics in its ClientInfo
  subscriptionsByTopic,  \* topic -> its clients
  activeJobs,            \* the topics with a running interval timer
  currentSequence,       \* SequenceManager: numbers snapshots
  sequenceNumber,        \* KlineDataProvider: numbers updates
  clientSequences,       \* SequenceManager: client -> last number sent, or 0
  dataCache,             \* the packets kept, at most one per number
  used,                  \* history: the ids that were given to a connection
  delivered              \* history: client -> the packets that reached it

indexes == <<connections, subscriptions, subscriptionsByTopic>>
counters == <<currentSequence, sequenceNumber, clientSequences>>
vars == <<indexes, activeJobs, counters, dataCache, used, delivered>>

Init ==
  /\ connections = {}
  /\ subscriptions = [c \in Clients |-> {}]
  /\ subscriptionsByTopic = [t \in Topics |-> {}]
  /\ activeJobs = {}
  /\ currentSequence = 0 /\ sequenceNumber = 0
  /\ clientSequences = [c \in Clients |-> 0]
  /\ dataCache = {}
  /\ used = {}
  /\ delivered = [c \in Clients |-> {}]

(* open: addConnection.                                                    *)
Open(c) ==
  /\ c \notin used
  /\ connections' = connections \union {c}
  /\ used' = used \union {c}
  /\ UNCHANGED <<subscriptions, subscriptionsByTopic, activeJobs, counters, dataCache, delivered>>

\* addSubscription.
AddSubscription(c, t) ==
  /\ subscriptions' = [subscriptions EXCEPT ![c] = @ \union {t}]
  /\ subscriptionsByTopic' = [subscriptionsByTopic EXCEPT ![t] = @ \union {c}]

\* removeSubscription; without a subscription nothing happens.
RemoveSubscription(c, t) ==
  /\ t \in subscriptions[c]
  /\ subscriptions' = [subscriptions EXCEPT ![c] = @ \ {t}]
  /\ subscriptionsByTopic' = [subscriptionsByTopic EXCEPT ![t] = @ \ {c}]

\* startGeneratingForTopic is idempotent, as is stopGeneratingForTopic.
StartGenerating(t) == activeJobs' = activeJobs \union {t}
StopGenerating(t) == activeJobs' = activeJobs \ {t}

\* cacheData: a packet replaces the one with its number, and when the map has
\* grown too large the entry with the least number goes.
Cached(p) ==
  LET kept == {q \in dataCache : q[2] # p[2]} \union {p} IN
  IF Cardinality(kept) > MaxCacheSize
  THEN {q \in kept : \E o \in kept : o[2] < q[2]}
  ELSE kept

(* sendInitialData: a snapshot, numbered by the SequenceManager.           *)
SendInitialData(c) ==
  LET snapshot == <<"snapshot", currentSequence + 1>> IN
  /\ currentSequence < MaxSequence
  /\ currentSequence' = currentSequence + 1
  /\ dataCache' = Cached(snapshot)
  /\ delivered' = [delivered EXCEPT ![c] = @ \union {snapshot}]
  /\ clientSequences' = [clientSequences EXCEPT ![c] = currentSequence + 1]
  /\ UNCHANGED sequenceNumber

(* handleSubscribe: addSubscription, a job for the first subscriber of a   *)
(* topic, and a snapshot whether or not the subscription is new.           *)
Subscribe(c, t) ==
  /\ c \in connections
  /\ AddSubscription(c, t)
  /\ IF subscriptionsByTopic[t] = {} THEN StartGenerating(t) ELSE UNCHANGED activeJobs
  /\ SendInitialData(c)
  /\ UNCHANGED <<connections, used>>

\* Mutant of Unsubscribe: any unsubscription stops the job.
UnsubscribeStops(c, t) ==
  /\ c \in connections
  /\ RemoveSubscription(c, t)
  /\ StopGenerating(t)
  /\ UNCHANGED <<connections, counters, dataCache, used, delivered>>

(* handleUnsubscribe: the last one out stops the job.                      *)
Unsubscribe(c, t) ==
  /\ c \in connections
  /\ RemoveSubscription(c, t)
  /\ IF subscriptionsByTopic[t] = {c} THEN StopGenerating(t) ELSE UNCHANGED activeJobs
  /\ UNCHANGED <<connections, counters, dataCache, used, delivered>>

\* Mutant of Close: the topics' index is not cleared.
CloseForgets(c) ==
  /\ c \in connections
  /\ connections' = connections \ {c}
  /\ subscriptions' = [subscriptions EXCEPT ![c] = {}]
  /\ UNCHANGED <<subscriptionsByTopic, activeJobs, counters, dataCache, used, delivered>>

(* close, whether the client went away, the heartbeat timed out or the     *)
(* socket idled: removeConnection ends the client's subscriptions.         *)
Close(c) ==
  /\ c \in connections
  /\ connections' = connections \ {c}
  /\ subscriptions' = [subscriptions EXCEPT ![c] = {}]
  /\ subscriptionsByTopic' = [t \in Topics |-> subscriptionsByTopic[t] \ {c}]
  /\ UNCHANGED <<activeJobs, counters, dataCache, used, delivered>>

\* broadcastData: under back-pressure the socket drops the packet of some
\* subscribers, which the server does not notice.
BroadcastData(t, packet, dropped) ==
  LET to == subscriptionsByTopic[t] IN
  /\ dropped \subseteq to
  /\ delivered' = [c \in Clients |->
       IF c \in to \ dropped THEN delivered[c] \union {packet} ELSE delivered[c]]
  /\ clientSequences' = [c \in Clients |->
       IF c \in to THEN packet[2] ELSE clientSequences[c]]

(* The timer of a job fires: generateRealtimeUpdate, then broadcastData.   *)
Publish(t, dropped) ==
  LET update == <<"update", sequenceNumber + 1>> IN
  /\ t \in activeJobs
  /\ sequenceNumber < MaxSequence
  /\ sequenceNumber' = sequenceNumber + 1
  /\ dataCache' = Cached(update)
  /\ BroadcastData(t, update, dropped)
  /\ UNCHANGED <<indexes, activeJobs, currentSequence, used>>

\* getCachedDataRange.
CachedDataRange(from, to) == {p \in dataCache : p[2] \in from..to}

(* handleRequestDataRange: what is cached of the numbers from..to is sent. *)
RequestDataRange(c, from, to) ==
  /\ c \in connections
  /\ delivered' = [delivered EXCEPT ![c] = @ \union CachedDataRange(from, to)]
  /\ UNCHANGED <<indexes, activeJobs, counters, dataCache, used>>

(* The process stops, or crashes, and starts again: every connection is    *)
(* gone and both counters begin anew.                                      *)
Restart ==
  /\ used # {}
  /\ connections' = {}
  /\ subscriptions' = [c \in Clients |-> {}]
  /\ subscriptionsByTopic' = [t \in Topics |-> {}]
  /\ activeJobs' = {}
  /\ currentSequence' = 0 /\ sequenceNumber' = 0
  /\ clientSequences' = [c \in Clients |-> 0]
  /\ dataCache' = {}
  /\ UNCHANGED <<used, delivered>>

Next ==
  \/ \E c \in Clients : Open(c)
  \/ \E c \in Clients, t \in Topics : Subscribe(c, t)
  \/ \E c \in Clients, t \in Topics : Unsubscribe(c, t)
  \/ \E c \in Clients : Close(c)
  \/ \E t \in Topics, dropped \in SUBSET Clients : Publish(t, dropped)
  \/ \E c \in Clients, from, to \in Sequences : RequestDataRange(c, from, to)
  \/ Restart

Spec == Init /\ [][Next]_vars

-----------------------------------------------------------------------------
(* Properties                                                              *)

\* The variables keep their types, and the cache holds one packet per number.
TypeOK ==
  /\ connections \subseteq used /\ used \subseteq Clients
  /\ subscriptions \in [Clients -> SUBSET Topics]
  /\ subscriptionsByTopic \in [Topics -> SUBSET Clients]
  /\ activeJobs \subseteq Topics
  /\ currentSequence \in 0..MaxSequence /\ sequenceNumber \in 0..MaxSequence
  /\ clientSequences \in [Clients -> 0..MaxSequence]
  /\ dataCache \subseteq Packets
  /\ \A p, q \in dataCache : p[2] = q[2] => p = q
  /\ delivered \in [Clients -> SUBSET Packets]

\* The two indexes of subscriptions always agree, and only connected clients
\* are in them, however clients subscribe, unsubscribe and vanish: a packet is
\* never sent to a closed socket, and no subscriber is forgotten.
IndexesAgree ==
  \A c \in Clients, t \in Topics :
    /\ c \in subscriptionsByTopic[t] <=> t \in subscriptions[c]
    /\ t \in subscriptions[c] => c \in connections

\* A topic with subscribers has a running job: no client ever waits for
\* updates that nobody generates, not even after a job outlived its
\* subscribers or was stopped by another client.
SubscribersAreFed == \A t \in Topics : subscriptionsByTopic[t] # {} => t \in activeJobs

\* The cache never holds more than MaxCacheSize packets.
CacheIsBounded == Cardinality(dataCache) <= MaxCacheSize

IdledByClosing ==
  \A t \in Topics :
    t \in activeJobs' /\ subscriptionsByTopic'[t] = {} =>
      \/ t \in activeJobs /\ subscriptionsByTopic[t] = {}
      \/ subscriptionsByTopic[t] # {} /\ subscriptionsByTopic[t] \intersect connections' = {}

\* "automatically stops them when no clients are subscribed"
\* (ws-kline-service/README.md:13) holds for clients that say good-bye: no job
\* starts without a subscriber, and one that runs loses its last subscriber
\* only when that client's connection closes.
OnlyClosingIdlesJobs == [][IdledByClosing]_vars
=============================================================================
