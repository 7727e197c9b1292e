----------------------------- MODULE KlineProofs ------------------------------
(***************************************************************************)
(* Proofs about the K-line server, for any clients, topics and cache size, *)
(* and about the chart, for any candles, canvases, thresholds and calls.   *)
(***************************************************************************)
EXTENDS KlineFeed, Chart, FiniteSetTheorems, WellFoundedInduction, TLAPS

\* The part of TypeOK about the cache.
CacheType ==
  /\ dataCache \subseteq Packets
  /\ \A p, q \in dataCache : p[2] = q[2] => p = q

\* A packet is cached with the bound respected only from a finite cache.
IInv ==
  /\ TypeOK
  /\ IndexesAgree
  /\ SubscribersAreFed
  /\ IsFiniteSet(dataCache)
  /\ CacheIsBounded

\* A set of packets that is not empty has one of least number.
LEMMA LeastPacket ==
  ASSUME NEW kept, kept \subseteq Packets, kept # {}
  PROVE  \E p \in kept : \A o \in kept : ~(o[2] < p[2])
<1> DEFINE N == {o[2] : o \in kept}
<1>1. N \subseteq Nat /\ N # {}
  BY DEF Packets, Sequences
<1>2. PICK n \in N : \A m \in N : ~(<<m, n>> \in OpToRel(<, Nat))
  <2> HIDE DEF N
  <2> QED BY <1>1, WFMin, NatLessThanWellFounded
<1>3. PICK p \in kept : p[2] = n
  OBVIOUS
<1>4. \A o \in kept : o[2] \in Nat /\ p[2] \in Nat /\ ~(<<o[2], p[2]>> \in OpToRel(<, Nat))
  BY <1>1, <1>2, <1>3
<1> QED BY <1>4 DEF OpToRel

\* Caching a packet keeps the cache well formed, finite and bounded.
LEMMA CachingIsBounded ==
  ASSUME CacheType, IsFiniteSet(dataCache), CacheIsBounded, NEW p \in Packets
  PROVE  /\ Cached(p) \subseteq Packets
         /\ \A q, r \in Cached(p) : q[2] = r[2] => q = r
         /\ IsFiniteSet(Cached(p))
         /\ Cardinality(Cached(p)) <= MaxCacheSize
<1> USE FeedAssumption
<1> DEFINE others == {q \in dataCache : q[2] # p[2]}
           kept == others \union {p}
           newer == {q \in kept : \E o \in kept : o[2] < q[2]}
<1>1. kept \subseteq Packets /\ \A q, r \in kept : q[2] = r[2] => q = r
  BY DEF CacheType
<1>2. IsFiniteSet(others) /\ Cardinality(others) \in Nat /\ Cardinality(others) <= MaxCacheSize
  <2>1. others \in SUBSET dataCache
    OBVIOUS
  <2>2. IsFiniteSet(others) /\ Cardinality(others) <= Cardinality(dataCache)
    <3> HIDE DEF others
    <3> QED BY <2>1, FS_Subset
  <2> QED BY <2>2, FS_CardinalityType DEF CacheIsBounded
<1>3. /\ IsFiniteSet(kept)
      /\ Cardinality(kept) \in Nat
      /\ Cardinality(kept) <= Cardinality(others) + 1
  <2> HIDE DEF others
  <2>1. /\ IsFiniteSet(kept)
        /\ Cardinality(kept) = IF p \in others THEN Cardinality(others) ELSE Cardinality(others) + 1
    BY <1>2, FS_AddElement
  <2> QED BY <1>2, <2>1
<1>4. IsFiniteSet(newer) /\ Cardinality(newer) \in Nat /\ Cardinality(newer) < Cardinality(kept)
  <2>1. newer \in SUBSET kept /\ newer # kept
    <3>1. PICK q \in kept : \A o \in kept : ~(o[2] < q[2])
      <4> HIDE DEF kept
      <4>1. kept # {}
        BY DEF kept
      <4> QED BY <1>1, <4>1, LeastPacket
    <3> QED BY <3>1
  <2> HIDE DEF newer, kept
  <2> QED BY <2>1, <1>3, FS_Subset, FS_CardinalityType
<1>5. Cached(p) = IF Cardinality(kept) > MaxCacheSize THEN newer ELSE kept
  BY DEF Cached
<1> HIDE DEF kept, newer, others
<1>6. newer \subseteq kept
  BY DEF newer
<1>7. CASE Cardinality(kept) > MaxCacheSize
  BY <1>1, <1>2, <1>3, <1>4, <1>5, <1>6, <1>7
<1>8. CASE ~(Cardinality(kept) > MaxCacheSize)
  BY <1>1, <1>2, <1>3, <1>5, <1>8
<1> QED BY <1>7, <1>8

LEMMA InitIInv == Init => IInv
<1> SUFFICES ASSUME Init PROVE IInv
  OBVIOUS
<1> USE FeedAssumption
<1>1. TypeOK
  BY DEF Init, TypeOK
<1>2. IndexesAgree /\ SubscribersAreFed
  BY DEF Init, IndexesAgree, SubscribersAreFed
<1>3. IsFiniteSet(dataCache) /\ CacheIsBounded
  BY FS_EmptySet DEF Init, CacheIsBounded
<1> QED BY <1>1, <1>2, <1>3 DEF IInv

\* An action that leaves the cache alone keeps it finite and bounded.
LEMMA CacheKept ==
  ASSUME IInv, UNCHANGED dataCache
  PROVE  IsFiniteSet(dataCache)' /\ CacheIsBounded'
BY DEF IInv, CacheIsBounded

LEMMA IInvStep == IInv /\ [Next]_vars => IInv'
<1> SUFFICES ASSUME IInv, [Next]_vars PROVE IInv'
  OBVIOUS
<1> USE FeedAssumption
<1>0. CacheType
  BY DEF IInv, TypeOK, CacheType
<1>1. ASSUME NEW c \in Clients, Open(c) PROVE IInv'
  <2>1. TypeOK'
    BY <1>1 DEF Open, IInv, TypeOK, counters
  <2>2. IndexesAgree' /\ SubscribersAreFed'
    BY <1>1 DEF Open, IInv, IndexesAgree, SubscribersAreFed
  <2> QED BY <2>1, <2>2, CacheKept, <1>1 DEF IInv, Open
<1>2. ASSUME NEW c \in Clients, NEW t \in Topics, Subscribe(c, t) PROVE IInv'
  <2> DEFINE p == <<"snapshot", currentSequence + 1>>
  <2>1. p \in Packets /\ currentSequence + 1 \in 0..MaxSequence /\ dataCache' = Cached(p)
    BY <1>2 DEF Subscribe, AddSubscription, StartGenerating, SendInitialData, Packets, Sequences, IInv, TypeOK
  <2>2. /\ dataCache' \subseteq Packets
        /\ \A q, r \in dataCache' : q[2] = r[2] => q = r
        /\ IsFiniteSet(dataCache')
        /\ Cardinality(dataCache') <= MaxCacheSize
    <3> HIDE DEF p
    <3> QED BY <2>1, <1>0, CachingIsBounded DEF IInv
  <2>3. delivered' \in [Clients -> SUBSET Packets]
    BY <1>2, <2>1 DEF Subscribe, AddSubscription, StartGenerating, SendInitialData, IInv, TypeOK
  <2>4. TypeOK'
    BY <1>2, <2>1, <2>2, <2>3 DEF Subscribe, AddSubscription, StartGenerating, SendInitialData, IInv, TypeOK
  <2>5. IndexesAgree'
    BY <1>2 DEF Subscribe, AddSubscription, StartGenerating, IInv, TypeOK, IndexesAgree
  <2>6. SubscribersAreFed'
    BY <1>2 DEF Subscribe, AddSubscription, StartGenerating, IInv, TypeOK, SubscribersAreFed
  <2> QED BY <2>2, <2>4, <2>5, <2>6 DEF IInv, CacheIsBounded
<1>3. ASSUME NEW c \in Clients, NEW t \in Topics, Unsubscribe(c, t) PROVE IInv'
  <2>1. TypeOK'
    BY <1>3 DEF Unsubscribe, RemoveSubscription, StopGenerating, IInv, TypeOK, counters
  <2>2. IndexesAgree'
    BY <1>3 DEF Unsubscribe, RemoveSubscription, StopGenerating, IInv, TypeOK, IndexesAgree
  <2>3. SubscribersAreFed'
    BY <1>3 DEF Unsubscribe, RemoveSubscription, StopGenerating, IInv, TypeOK, SubscribersAreFed
  <2> QED BY <2>1, <2>2, <2>3, CacheKept, <1>3 DEF IInv, Unsubscribe
<1>4. ASSUME NEW c \in Clients, Close(c) PROVE IInv'
  <2>1. TypeOK'
    BY <1>4 DEF Close, IInv, TypeOK, counters
  <2>2. IndexesAgree' /\ SubscribersAreFed'
    BY <1>4 DEF Close, IInv, TypeOK, IndexesAgree, SubscribersAreFed
  <2> QED BY <2>1, <2>2, CacheKept, <1>4 DEF IInv, Close
<1>5. ASSUME NEW t \in Topics, NEW dropped \in SUBSET Clients, Publish(t, dropped) PROVE IInv'
  <2> DEFINE p == <<"update", sequenceNumber + 1>>
  <2>1. p \in Packets /\ sequenceNumber + 1 \in 0..MaxSequence /\ dataCache' = Cached(p)
    BY <1>5 DEF Publish, BroadcastData, Packets, Sequences, IInv, TypeOK
  <2>2. /\ dataCache' \subseteq Packets
        /\ \A q, r \in dataCache' : q[2] = r[2] => q = r
        /\ IsFiniteSet(dataCache')
        /\ Cardinality(dataCache') <= MaxCacheSize
    <3> HIDE DEF p
    <3> QED BY <2>1, <1>0, CachingIsBounded DEF IInv
  <2>3. TypeOK'
    BY <1>5, <2>1, <2>2 DEF Publish, BroadcastData, indexes, IInv, TypeOK
  <2>4. IndexesAgree' /\ SubscribersAreFed'
    BY <1>5 DEF Publish, BroadcastData, indexes, IInv, IndexesAgree, SubscribersAreFed
  <2> QED BY <2>2, <2>3, <2>4 DEF IInv, CacheIsBounded
<1>6. ASSUME NEW c \in Clients, NEW from \in Sequences, NEW to \in Sequences,
             RequestDataRange(c, from, to)
      PROVE  IInv'
  <2>1. TypeOK'
    BY <1>6 DEF RequestDataRange, CachedDataRange, indexes, counters, IInv, TypeOK
  <2>2. IndexesAgree' /\ SubscribersAreFed'
    BY <1>6 DEF RequestDataRange, indexes, IInv, IndexesAgree, SubscribersAreFed
  <2> QED BY <2>1, <2>2, CacheKept, <1>6 DEF IInv, RequestDataRange
<1>7. CASE Restart
  <2>1. TypeOK'
    BY <1>7 DEF Restart, IInv, TypeOK
  <2>2. IndexesAgree' /\ SubscribersAreFed'
    BY <1>7 DEF Restart, IndexesAgree, SubscribersAreFed
  <2>3. IsFiniteSet(dataCache)' /\ CacheIsBounded'
    BY <1>7, FS_EmptySet DEF Restart, CacheIsBounded
  <2> QED BY <2>1, <2>2, <2>3 DEF IInv
<1>8. CASE UNCHANGED vars
  <2>1. TypeOK' /\ IndexesAgree' /\ SubscribersAreFed'
    BY <1>8 DEF vars, indexes, counters, IInv, TypeOK, IndexesAgree, SubscribersAreFed
  <2> QED BY <2>1, CacheKept, <1>8 DEF IInv, vars
<1> QED BY <1>1, <1>2, <1>3, <1>4, <1>5, <1>6, <1>7, <1>8 DEF Next

LEMMA Invariance == Spec => []IInv
BY InitIInv, IInvStep, PTL DEF Spec

\* Connections, subscriptions, jobs, counters and the cache keep their types.
THEOREM TypeCorrect == Spec => []TypeOK
<1>1. IInv => TypeOK
  BY DEF IInv
<1> QED BY <1>1, Invariance, PTL

\* The client's and the topic's index of subscriptions agree, and name only
\* connected clients, for any number of clients and topics.
THEOREM TheIndexesAgree == Spec => []IndexesAgree
<1>1. IInv => IndexesAgree
  BY DEF IInv
<1> QED BY <1>1, Invariance, PTL

\* A topic somebody subscribes to always has a running generator job.
THEOREM EverySubscriberIsFed == Spec => []SubscribersAreFed
<1>1. IInv => SubscribersAreFed
  BY DEF IInv
<1> QED BY <1>1, Invariance, PTL

\* The cache of packets keeps its bound for any MaxCacheSize, although two
\* counters share its keys.
THEOREM TheCacheIsBounded == Spec => []CacheIsBounded
<1>1. IInv => CacheIsBounded
  BY DEF IInv
<1> QED BY <1>1, Invariance, PTL

\* No job is left without subscribers by anything but the closing of its last
\* subscriber's connection: an unsubscription always stops it, for any number
\* of clients and topics.
THEOREM OnlyClosingIdles == Spec => OnlyClosingIdlesJobs
<1> DEFINE Idled(t) == t \in activeJobs' /\ subscriptionsByTopic'[t] = {}
           WasIdle(t) == t \in activeJobs /\ subscriptionsByTopic[t] = {}
           AllClosed(t) == /\ subscriptionsByTopic[t] # {}
                           /\ subscriptionsByTopic[t] \intersect connections' = {}
<1>1. ASSUME IInv, [Next]_vars, NEW t \in Topics, Idled(t)
      PROVE  WasIdle(t) \/ AllClosed(t)
  <2>0. TypeOK /\ IndexesAgree
    BY <1>1 DEF IInv
  <2>1. ASSUME NEW c \in Clients, NEW u \in Topics, Subscribe(c, u)
        PROVE  WasIdle(t) \/ AllClosed(t)
    <3>1. subscriptionsByTopic'[t] = (IF t = u THEN subscriptionsByTopic[t] \union {c}
                                      ELSE subscriptionsByTopic[t])
      BY <2>0, <2>1 DEF Subscribe, AddSubscription, StartGenerating, TypeOK
    <3>2. t # u /\ t \in activeJobs
      BY <2>1, <3>1, <1>1 DEF Subscribe, AddSubscription, StartGenerating
    <3> QED BY <3>1, <3>2, <1>1
  <2>2. ASSUME NEW c \in Clients, NEW u \in Topics, Unsubscribe(c, u)
        PROVE  WasIdle(t) \/ AllClosed(t)
    <3>1. subscriptionsByTopic'[t] = (IF t = u THEN subscriptionsByTopic[t] \ {c}
                                      ELSE subscriptionsByTopic[t])
      BY <2>0, <2>2 DEF Unsubscribe, RemoveSubscription, StopGenerating, TypeOK
    <3>2. c \in subscriptionsByTopic[u]
      BY <2>0, <2>2 DEF Unsubscribe, RemoveSubscription, StopGenerating, IndexesAgree
    <3>3. t # u
      <4> SUFFICES ASSUME t = u PROVE FALSE
        OBVIOUS
      <4>1. subscriptionsByTopic[u] = {c}
        BY <3>1, <3>2, <1>1
      <4> QED BY <4>1, <2>2, <1>1 DEF Unsubscribe, RemoveSubscription, StopGenerating
    <3> QED BY <3>1, <3>3, <2>2, <1>1 DEF Unsubscribe, RemoveSubscription, StopGenerating
  <2>3. ASSUME NEW c \in Clients, Close(c) PROVE WasIdle(t) \/ AllClosed(t)
    BY <2>3, <1>1 DEF Close
  <2>4. ASSUME NEW u \in Topics, NEW dropped \in SUBSET Clients, Publish(u, dropped)
        PROVE  WasIdle(t) \/ AllClosed(t)
    BY <2>4, <1>1 DEF Publish, BroadcastData, indexes
  <2>5. CASE Restart
    BY <2>5, <1>1 DEF Restart
  <2>6. ASSUME NEW c \in Clients, Open(c) PROVE WasIdle(t) \/ AllClosed(t)
    BY <2>6, <1>1 DEF Open
  <2>7. ASSUME NEW c \in Clients, NEW from \in Sequences, NEW to \in Sequences,
               RequestDataRange(c, from, to)
        PROVE  WasIdle(t) \/ AllClosed(t)
    BY <2>7, <1>1 DEF RequestDataRange, indexes
  <2>8. CASE UNCHANGED vars
    BY <2>8, <1>1 DEF vars, indexes
  <2> QED BY <2>1, <2>2, <2>3, <2>4, <2>5, <2>6, <2>7, <2>8, <1>1 DEF Next
<1>2. IInv /\ [Next]_vars => [IdledByClosing]_vars
  BY <1>1 DEF IdledByClosing
<1> QED BY <1>2, Invariance, PTL DEF Spec, OnlyClosingIdlesJobs

-----------------------------------------------------------------------------
(* The chart.  Its methods are operators on one record, and each leaves    *)
(* most of its fields alone.                                               *)

ChartFields ==
  {"ready", "dirty", "dm", "layout", "canvas", "mode", "look", "shown", "mouse", "drag", "book"}
MouseFields == DOMAIN NewMouse
DragFields == DOMAIN NewDrag

\* The hands on the chart, and the mode, are those of c.
SameHands(d, c) ==
  DOMAIN d = ChartFields /\ d.mouse = c.mouse /\ d.drag = c.drag /\ d.mode = c.mode

\* The command manager and the navigator agree on the handle that is held.
HandleInv(c) ==
  /\ DOMAIN c = ChartFields /\ DOMAIN c.mouse = MouseFields /\ DOMAIN c.drag = DragFields
  /\ c.mode \in Modes
  /\ c.mouse.dragging => c.mouse.handle = c.drag.handle /\ c.drag.handle \in {"left", "middle", "right"}

LEMMA RenderKeepsHands ==
  ASSUME NEW c, DOMAIN c = ChartFields
  PROVE  SameHands(Render(c), c)
BY DEF Render, ClearAllDirtyFlags, SameHands, ChartFields

LEMMA LayoutKeepsHands ==
  ASSUME NEW c, DOMAIN c = ChartFields
  PROVE  SameHands(UpdateLayout(c), c)
BY DEF UpdateLayout, SameHands, ChartFields

LEMMA LayoutChangeKeepsHands ==
  ASSUME NEW c, DOMAIN c = ChartFields
  PROVE  SameHands(HandleLayoutChange(c), c)
<1> DEFINE u == SetAllDirty(UpdateLayout(c))
<1>1. SameHands(u, c)
  BY LayoutKeepsHands DEF SetAllDirty, SameHands, ChartFields
<1> HIDE DEF u
<1>2. SameHands(Render(u), u)
  BY <1>1, RenderKeepsHands DEF SameHands
<1>3. HandleLayoutChange(c) = Render(u)
  BY DEF HandleLayoutChange, u
<1> QED BY <1>1, <1>2, <1>3 DEF SameHands

LEMMA RecalculationKeepsHands ==
  ASSUME NEW c, DOMAIN c = ChartFields
  PROVE  SameHands(FullRecalculate(c), c)
<1> DEFINE u == UpdateLayout(c)
           w == [u EXCEPT !.dm = InitializeVisibleRange(u.dm, u.layout)]
           v == UpdateLayout(w)
           x == [v EXCEPT !.dm = CalculateDataRanges(v.dm)]
<1>1. SameHands(u, c)
  BY LayoutKeepsHands
<1>2. SameHands(w, u)
  <2> HIDE DEF u
  <2> QED BY <1>1 DEF SameHands, ChartFields
<1>3. SameHands(v, w)
  <2> HIDE DEF w
  <2> QED BY <1>2, LayoutKeepsHands DEF SameHands
<1>4. SameHands(x, v)
  <2> HIDE DEF v
  <2> QED BY <1>3 DEF SameHands, ChartFields
<1>5. FullRecalculate(c) \in {c, u, x}
  BY DEF FullRecalculate
<1> HIDE DEF u, w, v, x
<1> QED BY <1>1, <1>2, <1>3, <1>4, <1>5 DEF SameHands

\* Whatever keeps the hands keeps the invariant.
LEMMA HandsKeepTheHandle ==
  ASSUME NEW c, NEW d, HandleInv(c), SameHands(d, c)
  PROVE  HandleInv(d)
BY DEF HandleInv, SameHands

LEMMA HandlesAreNamed ==
  ASSUME NEW c, NEW p
  PROVE  HandleAt(c, p) \in {"none", "left", "middle", "right"}
BY Zenon DEF HandleAt
\* A change of one field that is not of the hands.
LEMMA OtherFieldsAreNotHands ==
  ASSUME NEW c, DOMAIN c = ChartFields, NEW x
  PROVE  /\ SameHands([c EXCEPT !.dm = x], c) /\ SameHands([c EXCEPT !.canvas = x], c)
         /\ SameHands([c EXCEPT !.look = x], c) /\ SameHands([c EXCEPT !.dirty = x], c)
BY DEF SameHands, ChartFields

LEMMA MovingKeepsTheHandle ==
  ASSUME NEW c, HandleInv(c), NEW p
  PROVE  HandleInv(MoveTo(c, p))
<1>1. DOMAIN MoveTo(c, p) = DOMAIN c /\ MoveTo(c, p).drag = c.drag /\ MoveTo(c, p).mode = c.mode
  BY DEF MoveTo, HandleInv, ChartFields
<1>2. /\ DOMAIN MoveTo(c, p).mouse = DOMAIN c.mouse
      /\ MoveTo(c, p).mouse.dragging = c.mouse.dragging /\ MoveTo(c, p).mouse.handle = c.mouse.handle
  BY DEF MoveTo, HandleInv, ChartFields, MouseFields, NewMouse
<1> QED BY <1>1, <1>2 DEF HandleInv

LEMMA HoveringKeepsTheHandle ==
  ASSUME NEW c, HandleInv(c), NEW p
  PROVE  HandleInv(HoverAt(c, p))
<1> DEFINE u == UpdateHoverStatus(c, p)
           v == SetDirty(u, {"Overlay", "Main"})
<1>1. HandleInv(u)
  <2>1. DOMAIN u = DOMAIN c /\ u.drag = c.drag /\ u.mode = c.mode
    BY DEF UpdateHoverStatus, HandleInv, ChartFields
  <2>2. DOMAIN u.mouse = DOMAIN c.mouse /\ u.mouse.dragging = c.mouse.dragging /\ u.mouse.handle = c.mouse.handle
    BY DEF UpdateHoverStatus, HandleInv, ChartFields, MouseFields, NewMouse
  <2> HIDE DEF u
  <2> QED BY <2>1, <2>2 DEF HandleInv
<1>2. HoverAt(c, p) \in {Render(u), Render(v)}
  BY DEF HoverAt
<1> HIDE DEF u
<1>3. HandleInv(v)
  BY <1>1, OtherFieldsAreNotHands, HandsKeepTheHandle DEF SetDirty, HandleInv
<1> HIDE DEF v
<1>4. HandleInv(Render(u)) /\ HandleInv(Render(v))
  BY <1>1, <1>3, RenderKeepsHands, HandsKeepTheHandle DEF HandleInv
<1> QED BY <1>2, <1>4

LEMMA DraggingKeepsTheHandle ==
  ASSUME NEW c, HandleInv(c), NEW p
  PROVE  HandleInv(DragTo(c, p))
<1> DEFINE w(x) == [c EXCEPT !.dm = x]
<1>1. \E x : DragTo(c, p) \in {c, HandleLayoutChange(w(x))}
  BY Zenon DEF DragTo
<1>2. PICK x : DragTo(c, p) \in {c, HandleLayoutChange(w(x))}
  BY <1>1
<1>3. HandleInv(w(x))
  BY OtherFieldsAreNotHands, HandsKeepTheHandle DEF HandleInv
<1> HIDE DEF w
<1>4. HandleInv(HandleLayoutChange(w(x)))
  BY <1>3, LayoutChangeKeepsHands, HandsKeepTheHandle DEF HandleInv
<1> QED BY <1>2, <1>4

LEMMA PressingTellsBoth ==
  ASSUME NEW c, HandleInv(c), NEW p
  PROVE  HandleInv(Press(c, p))
<1> DEFINE h == HandleAt(c, p)
           w == [c EXCEPT !.mouse.dragging = TRUE, !.mouse.handle = h,
                   !.drag = [dragging |-> TRUE, x |-> p.x, handle |-> h,
                             start |-> c.dm.range.start, count |-> c.dm.range.count]]
<1>1. Press(c, p) \in {c, Render(w)} /\ (h = "none" => Press(c, p) = c)
  BY DEF Press
<1>2. ASSUME h # "none" PROVE HandleInv(w)
  <2>1. h \in {"left", "middle", "right"}
    BY <1>2, HandlesAreNamed
  <2> HIDE DEF h
  <2>2. DOMAIN w = DOMAIN c /\ w.mode = c.mode /\ w.drag.handle = h /\ DOMAIN w.drag = DragFields
    BY DEF HandleInv, ChartFields, DragFields, NewDrag
  <2>3. DOMAIN w.mouse = DOMAIN c.mouse /\ w.mouse.handle = h
    BY DEF HandleInv, ChartFields, MouseFields, NewMouse
  <2> HIDE DEF w
  <2> QED BY <2>1, <2>2, <2>3 DEF HandleInv
<1> HIDE DEF w
<1>3. ASSUME h # "none" PROVE HandleInv(Render(w))
  BY <1>2, <1>3, RenderKeepsHands, HandsKeepTheHandle DEF HandleInv
<1> QED BY <1>1, <1>3

LEMMA ReleasingTellsBoth ==
  ASSUME NEW c, HandleInv(c)
  PROVE  HandleInv(Release(c))
<1> DEFINE w == [c EXCEPT !.mouse.dragging = FALSE, !.mouse.handle = "none",
                          !.drag.dragging = FALSE, !.drag.handle = "none"]
<1>1. Release(c) \in {c, HandleLayoutChange(w)}
  BY DEF Release
<1>2. HandleInv(w)
  <2>1. DOMAIN w = DOMAIN c /\ w.mode = c.mode
    BY DEF HandleInv, ChartFields
  <2>2. DOMAIN w.drag = DOMAIN c.drag /\ DOMAIN w.mouse = DOMAIN c.mouse /\ w.mouse.dragging = FALSE
    BY DEF HandleInv, ChartFields, MouseFields, NewMouse
  <2> HIDE DEF w
  <2> QED BY <2>1, <2>2 DEF HandleInv
<1> HIDE DEF w
<1>3. HandleInv(HandleLayoutChange(w))
  BY <1>2, LayoutChangeKeepsHands, HandsKeepTheHandle DEF HandleInv
<1> QED BY <1>1, <1>3

LEMMA LeavingLetsGo ==
  ASSUME NEW c, HandleInv(c)
  PROVE  HandleInv(Leave(c))
<1> DEFINE w(i) == [c EXCEPT
      !.mouse = [@ EXCEPT !.inChart = FALSE, !.inNav = FALSE, !.hover = i, !.last = i, !.dragging = FALSE],
      !.dirty = IF c.mouse.dragging THEN Layers ELSE @ \union {"Overlay", "Main"}]
<1>1. \E i : Leave(c) = Render(w(i))
  BY DEF Leave
<1>2. PICK i : Leave(c) = Render(w(i))
  BY <1>1
<1>3. HandleInv(w(i))
  <2>1. DOMAIN w(i) = DOMAIN c /\ w(i).mode = c.mode /\ w(i).drag = c.drag
    BY DEF HandleInv, ChartFields
  <2>2. DOMAIN w(i).mouse = DOMAIN c.mouse /\ w(i).mouse.dragging = FALSE
    BY DEF HandleInv, ChartFields, MouseFields, NewMouse
  <2> HIDE DEF w
  <2> QED BY <2>1, <2>2 DEF HandleInv
<1> HIDE DEF w
<1> QED BY <1>2, <1>3, RenderKeepsHands, HandsKeepTheHandle DEF HandleInv
\* What a call may do to a chart whose hands are c's: the change of one field,
\* and what is made of it.
LEMMA HandsOfCalls ==
  ASSUME NEW c, HandleInv(c), NEW x
  PROVE  /\ HandleInv(Render(c)) /\ HandleInv(HandleLayoutChange(c))
         /\ HandleInv([c EXCEPT !.dm = x]) /\ HandleInv([c EXCEPT !.canvas = x])
         /\ HandleInv([c EXCEPT !.look = x])
         /\ HandleInv(HandleLayoutChange([c EXCEPT !.dm = x]))
         /\ HandleInv(Render([c EXCEPT !.dm = x])) /\ HandleInv(Render([c EXCEPT !.look = x]))
<1>1. ASSUME NEW d, HandleInv(d) PROVE HandleInv(Render(d)) /\ HandleInv(HandleLayoutChange(d))
  BY <1>1, RenderKeepsHands, LayoutChangeKeepsHands, HandsKeepTheHandle DEF HandleInv
<1>2. HandleInv([c EXCEPT !.dm = x]) /\ HandleInv([c EXCEPT !.canvas = x]) /\ HandleInv([c EXCEPT !.look = x])
  BY OtherFieldsAreNotHands, HandsKeepTheHandle DEF HandleInv
<1> QED BY <1>1, <1>2

LEMMA HandsOfCanvases ==
  ASSUME NEW c, HandleInv(c)
  PROVE  HandleInv(Render(FullRecalculate(OnCanvases(c, NewCanvasManager))))
<1> DEFINE d == OnCanvases(c, NewCanvasManager)
<1>1. DOMAIN d = ChartFields /\ d.mouse = c.mouse /\ d.drag = c.drag /\ d.mode = c.mode
  BY DEF OnCanvases, HandleInv, ChartFields
<1> HIDE DEF d
<1>2. HandleInv(d)
  BY <1>1, HandsKeepTheHandle DEF SameHands
<1>3. HandleInv(FullRecalculate(d))
  BY <1>2, RecalculationKeepsHands, HandsKeepTheHandle DEF HandleInv
<1> HIDE DEF HandleInv
<1>4. HandleInv(Render(FullRecalculate(d)))
  BY <1>3, HandsOfCalls
<1> QED BY <1>4 DEF d

LEMMA HandsOfModes ==
  ASSUME NEW c, HandleInv(c), NEW m \in Modes
  PROVE  HandleInv(HandleLayoutChange([c EXCEPT !.mode = m]))
<1> DEFINE d == [c EXCEPT !.mode = m]
<1>1. DOMAIN d = ChartFields /\ d.mouse = c.mouse /\ d.drag = c.drag /\ d.mode = m
  BY DEF HandleInv, ChartFields
<1> HIDE DEF d
<1>2. HandleInv(d)
  BY <1>1 DEF HandleInv
<1>3. HandleInv(HandleLayoutChange(d))
  BY <1>2, HandsOfCalls
<1> QED BY <1>3 DEF d

LEMMA HandsOfResizes ==
  ASSUME NEW c, HandleInv(c), NEW size, NEW blank
  PROVE  LET d == UpdateLayout([c EXCEPT !.canvas = size, !.shown["Overlay"] = blank])
         IN  HandleInv(HandleLayoutChange([d EXCEPT !.dm = InitializeVisibleRange(@, d.layout)]))
<1> DEFINE b == [c EXCEPT !.canvas = size, !.shown["Overlay"] = blank]
           d == UpdateLayout(b)
<1>1. SameHands(b, c)
  BY DEF HandleInv, SameHands, ChartFields
<1> HIDE DEF b
<1>2. HandleInv(d)
  BY <1>1, LayoutKeepsHands, HandsKeepTheHandle DEF SameHands
<1> HIDE DEF d
<1>3. HandleInv(HandleLayoutChange([d EXCEPT !.dm = InitializeVisibleRange(d.dm, d.layout)]))
  BY <1>2, HandsOfCalls
<1> QED BY <1>3 DEF d, b

LEMMA HandleStep == HandleInv(chart) /\ [ChartNext]_chartVars => HandleInv(chart)'
<1> SUFFICES ASSUME HandleInv(chart), [ChartNext]_chartVars PROVE HandleInv(chart')
  OBVIOUS
<1>1. ASSUME NEW size \in Resizes, NEW given \in BOOLEAN, SetCanvases(size, given) PROVE HandleInv(chart')
  <2> DEFINE c == [chart EXCEPT !.canvas = size]
  <2>1. chart' \in {c, Render(FullRecalculate(OnCanvases(c, NewCanvasManager)))}
    BY <1>1 DEF SetCanvases, Ends
  <2>2. HandleInv(c)
    BY HandsOfCalls
  <2> HIDE DEF c
  <2> QED BY <2>1, <2>2, HandsOfCanvases
<1>2. CASE DrawAll
  BY <1>2, HandsOfCalls DEF DrawAll, Ends
<1>3. ASSUME NEW batch \in Batches, AppendData(batch) \/ MergeData(batch) PROVE HandleInv(chart')
  <2> DEFINE w(x) == [chart EXCEPT !.dm = x]
  <2>1. \E x : chart' \in {w(x), HandleLayoutChange(w(x))}
    <3>1. CASE AppendData(batch)
      <4>1. chart' \in {w(AppendItems(chart.dm, batch)), HandleLayoutChange(w(AppendItems(chart.dm, batch)))}
        BY <3>1 DEF AppendData, Ends
      <4> QED BY <4>1
    <3>2. CASE MergeData(batch)
      <4>1. chart' \in {w(MergeItems(chart.dm, batch)), HandleLayoutChange(w(MergeItems(chart.dm, batch)))}
        BY <3>2 DEF MergeData, Ends
      <4> QED BY <4>1
    <3> QED BY <1>3, <3>1, <3>2
  <2>2. ASSUME NEW x PROVE HandleInv(w(x)) /\ HandleInv(HandleLayoutChange(w(x)))
    BY HandsOfCalls
  <2> HIDE DEF w
  <2>3. PICK x : chart' \in {w(x), HandleLayoutChange(w(x))}
    BY <2>1
  <2> QED BY <2>2, <2>3
<1>4. ASSUME NEW p \in Points, MouseMove(p) PROVE HandleInv(chart')
  <2>1. HandleInv(MoveTo(chart, p))
    BY MovingKeepsTheHandle
  <2>2. chart' \in {DragTo(MoveTo(chart, p), p), HoverAt(MoveTo(chart, p), p)}
    BY <1>4 DEF MouseMove, Ends
  <2> QED BY <2>1, <2>2, DraggingKeepsTheHandle, HoveringKeepsTheHandle
<1>5. ASSUME NEW p \in Points, MouseDown(p) PROVE HandleInv(chart')
  BY <1>5, PressingTellsBoth DEF MouseDown, Ends
<1>6. ASSUME NEW p \in Points, NEW down \in BOOLEAN, NavigatorWheel(p, down) \/ MainWheel(p, down)
      PROVE  HandleInv(chart')
  <2>1. HandleInv(MoveTo(chart, p))
    BY MovingKeepsTheHandle
  <2>2. PICK x : chart' \in {MoveTo(chart, p), Render([MoveTo(chart, p) EXCEPT !.dm = x]),
                             HandleLayoutChange([MoveTo(chart, p) EXCEPT !.dm = x])}
    BY <1>6 DEF NavigatorWheel, MainWheel, Ends
  <2> QED BY <2>1, <2>2, HandsOfCalls
<1>7. CASE MouseUp
  BY <1>7, ReleasingTellsBoth DEF MouseUp, Ends
<1>8. CASE MouseLeave
  BY <1>8, LeavingLetsGo DEF MouseLeave, Ends
<1>9. ASSUME NEW m \in Modes, SetRenderMode(m) PROVE HandleInv(chart')
  BY <1>9, HandsOfModes DEF SetRenderMode, Ends
<1>10. ASSUME NEW size \in Resizes, HandleCanvasResize(size) PROVE HandleInv(chart')
  BY <1>10, HandsOfResizes DEF HandleCanvasResize, Ends
<1>11. ASSUME NEW config \in Configs, UpdateConfig(config) PROVE HandleInv(chart')
  BY <1>11, HandsOfCalls DEF UpdateConfig, Ends
<1>12. CASE UNCHANGED chartVars
  BY <1>12 DEF chartVars
<1> QED BY <1>1, <1>2, <1>3, <1>4, <1>5, <1>6, <1>7, <1>8, <1>9, <1>10, <1>11, <1>12
        DEF ChartNext, RefuseData, Done

LEMMA HandleInit == ChartInit => HandleInv(chart)
<1> SUFFICES ASSUME NEW hist \in Histories PROVE HandleInv(NewChart(hist))
  BY DEF ChartInit
<1>1. /\ DOMAIN NewRenderer = ChartFields /\ NewRenderer.mouse = NewMouse /\ NewRenderer.drag = NewDrag
      /\ NewRenderer.mode = "kmap"
  BY DEF NewRenderer, NewUninitialized, ChartFields
<1> HIDE DEF NewRenderer
<1> QED BY <1>1 DEF NewChart, HandleInv, ChartFields, MouseFields, DragFields, NewMouse, Modes

\* The navigator is asked before the crosshair.
LEMMA NavigatorIsAskedFirst ==
  ASSUME NEW c, c.mode \in Modes, NEW p, NavigatorCursor(c, p) # "default"
  PROVE  StrategyCursor(c, p) = NavigatorCursor(c, p)
<1> DEFINE answer == [s \in DOMAIN Strategies |->
             CASE s = "navigator" -> NavigatorCursor(c, p) [] s = "crosshair" -> OverlayCursor(c, p) [] OTHER -> "default"]
           asked == {s \in DOMAIN Strategies : c.mode \in Strategies[s].modes /\ answer[s] # "default"}
<1>1. /\ {"navigator", "crosshair"} \subseteq DOMAIN Strategies
      /\ Strategies["navigator"].priority = 80 /\ Strategies["crosshair"].priority = 90
      /\ Strategies["navigator"].modes = Modes
  BY DEF Strategies, Strategy
<1>2. answer["navigator"] = NavigatorCursor(c, p)
  BY <1>1
<1>3. \A s \in DOMAIN Strategies : s \notin {"navigator", "crosshair"} => answer[s] = "default"
  OBVIOUS
<1>4. "navigator" \in asked /\ asked \subseteq {"navigator", "crosshair"}
  <2> HIDE DEF answer
  <2> QED BY <1>1, <1>2, <1>3
<1> HIDE DEF answer, asked
<1>5. \A s \in asked : (\A t \in asked : Strategies[s].priority <= Strategies[t].priority) => s = "navigator"
  BY <1>1, <1>4
<1>6. \A t \in asked : Strategies["navigator"].priority <= Strategies[t].priority
  BY <1>1, <1>4
<1>7. (CHOOSE s \in asked : \A t \in asked : Strategies[s].priority <= Strategies[t].priority) = "navigator"
  BY <1>4, <1>5, <1>6
<1>8. StrategyCursor(c, p) = IF asked = {} THEN "default"
        ELSE answer[CHOOSE s \in asked : \A t \in asked : Strategies[s].priority <= Strategies[t].priority]
  BY Zenon DEF StrategyCursor, asked, answer
<1> QED BY <1>2, <1>4, <1>7, <1>8

(* The cursor over the navigator: while the mouse drags, the command        *)
(* manager's handle is the navigator's, whatever was pressed, moved, left, *)
(* resized or zoomed in between, and the navigator answers before the      *)
(* crosshair (datazoom_renderer.rs:490-511, manager.rs:168-176).           *)
THEOREM CursorAlwaysTells == ChartSpec => []CursorTellsWhatIsHeld
<1>1. HandleInv(chart) => CursorTellsWhatIsHeld
  <2> SUFFICES ASSUME HandleInv(chart), NEW p \in Points, InNavigator(chart, p)
               PROVE  LET held == IF chart.mouse.dragging THEN chart.drag.handle ELSE HandleAt(chart, p) IN
                      CASE held \in {"left", "right"} -> CursorStyle(chart, p) = "ew-resize"
                        [] held = "middle" -> CursorStyle(chart, p) = (IF chart.mouse.dragging THEN "grabbing" ELSE "grab")
                        [] OTHER -> CursorStyle(chart, p) = "pointer"
    BY DEF CursorTellsWhatIsHeld
  <2> DEFINE h == HandleAt(chart, p)
  <2>1. h \in {"none", "left", "middle", "right"}
    BY HandlesAreNamed
  <2>2. CursorStyle(chart, p) = StrategyCursor(chart, p)
    BY DEF CursorStyle
  <2>3. CASE chart.mouse.dragging
    <3>1. NavigatorCursor(chart, p) = IF chart.drag.handle = "middle" THEN "grabbing" ELSE "ew-resize"
      BY <2>3 DEF NavigatorCursor, HandleInv
    <3>2. CursorStyle(chart, p) = NavigatorCursor(chart, p)
      BY <2>2, <3>1, NavigatorIsAskedFirst DEF HandleInv
    <3> QED BY <2>3, <3>1, <3>2 DEF HandleInv
  <2>4. CASE ~chart.mouse.dragging
    <3>1. NavigatorCursor(chart, p) =
            CASE h \in {"left", "right"} -> "ew-resize" [] h = "middle" -> "grab" [] OTHER -> "pointer"
      BY <2>4, Zenon DEF NavigatorCursor
    <3> HIDE DEF h
    <3>2. CursorStyle(chart, p) = NavigatorCursor(chart, p)
      <4>1. NavigatorCursor(chart, p) # "default"
        BY <2>1, <3>1
      <4> QED BY <2>2, <4>1, NavigatorIsAskedFirst DEF HandleInv
    <3>3. CASE h \in {"left", "right"}
      BY <2>4, <3>1, <3>2, <3>3 DEF h
    <3>4. CASE h = "middle"
      BY <2>4, <3>1, <3>2, <3>4 DEF h
    <3>5. CASE h = "none"
      BY <2>4, <3>1, <3>2, <3>5 DEF h
    <3> QED BY <2>1, <3>3, <3>4, <3>5
  <2> QED BY <2>3, <2>4
<1> QED BY <1>1, HandleInit, HandleStep, PTL DEF ChartSpec

-----------------------------------------------------------------------------
(* The chart's candles and what is kept beside them.                       *)

DataFields == {"hist", "incr", "index", "cal", "heat", "range"}
IsList(s) == s \in Seq(ToSet(s))

\* Candles are lists, and what is kept beside them agrees with them.
DataInv(d) ==
  /\ DOMAIN d = DataFields
  /\ IsList(d.hist) /\ IsList(d.incr)
  /\ CachesAreFresh(d) /\ IndexIsRight(d)

\* A range lies within so many candles, and its numbers are natural.
Within(r, total) ==
  /\ {r.start, r.count, r.end} \subseteq Nat
  /\ r.total = total /\ r.start + r.count = r.end /\ r.end <= total
  /\ total > 0 => r.count >= 1

Ranged(d) == Within(d.range, Length(d))

\* From d to e candles have only come, no more than some, and where none was
\* added the visible range is what it was.
Grown(d, e, some) ==
  /\ e.hist = d.hist /\ Len(d.incr) <= Len(e.incr) /\ Len(e.incr) <= Len(d.incr) + some
  /\ Len(e.incr) = Len(d.incr) => e.range = d.range
  /\ Ranged(d) => Ranged(e)

\* A new range lies within the candles; one that did already is what was asked.
LEMMA NewRangesAreWithin ==
  ASSUME NEW start \in Nat, NEW count \in Int, NEW total \in Nat
  PROVE  LET r == NewRange(start, count, total) IN
         /\ Within(r, total)
         /\ count >= 1 /\ start + count <= total => r.start = start /\ r.count = count
BY DEF NewRange, Least, Greatest, Minus, Within

LEMMA Lists ==
  ASSUME NEW s, IsList(s)
  PROVE  /\ Len(s) \in Nat /\ DOMAIN s = 1 .. Len(s)
         /\ \A item : IsList(Append(s, item)) /\ Len(Append(s, item)) = Len(s) + 1
         /\ \A item : /\ DOMAIN Append(s, item) = 1 .. (Len(s) + 1) /\ Append(s, item)[Len(s) + 1] = item
                      /\ \A j \in 1 .. Len(s) : Append(s, item)[j] = s[j]
<1>1. \A S : s \in Seq(S) => Len(s) \in Nat /\ DOMAIN s = 1 .. Len(s)
  OBVIOUS
<1>2. Len(s) \in Nat /\ DOMAIN s = 1 .. Len(s)
  BY <1>1 DEF IsList
<1>3. ASSUME NEW item
      PROVE  /\ IsList(Append(s, item)) /\ Len(Append(s, item)) = Len(s) + 1
             /\ DOMAIN Append(s, item) = 1 .. (Len(s) + 1) /\ Append(s, item)[Len(s) + 1] = item
             /\ \A j \in 1 .. Len(s) : Append(s, item)[j] = s[j]
  <2> DEFINE S == ToSet(s) \union {item}
             t == Append(s, item)
  <2>1. s \in Seq(S) /\ item \in S
    <3>1. s \in Seq(ToSet(s)) /\ ToSet(s) \subseteq S /\ item \in S
      BY DEF IsList
    <3>2. \A A, B : A \subseteq B /\ s \in Seq(A) => s \in Seq(B)
      OBVIOUS
    <3> HIDE DEF S
    <3> QED BY <3>1, <3>2
  <2> HIDE DEF S
  <2>2. /\ t \in Seq(S) /\ Len(t) = Len(s) + 1 /\ DOMAIN t = 1 .. (Len(s) + 1)
        /\ t[Len(s) + 1] = item /\ \A j \in 1 .. Len(s) : t[j] = s[j]
    BY <2>1
  <2> HIDE DEF t
  <2>3. IsList(t)
    <3>1. \A j \in 1 .. Len(t) : t[j] \in ToSet(t)
      BY <2>2 DEF ToSet
    <3> QED BY <2>2, <3>1 DEF IsList
  <2> QED BY <2>2, <2>3 DEF t
<1> QED BY <1>2, <1>3

LEMMA Lengths ==
  ASSUME NEW d, IsList(d.hist), IsList(d.incr)
  PROVE  /\ Len(d.hist) \in Nat /\ Len(d.incr) \in Nat /\ Length(d) = Len(d.hist) + Len(d.incr)
         /\ Length(d) \in Nat
<1>1. Len(d.hist) \in Nat /\ Len(d.incr) \in Nat
  BY Lists
<1>2. Length(d) = Len(d.hist) + Len(d.incr)
  BY DEF Length
<1>3. \A a, b \in Nat : a + b \in Nat
  OBVIOUS
<1> QED BY <1>1, <1>2, <1>3

LEMMA ListsOfFunctions ==
  ASSUME NEW n \in Nat, NEW s, s = [k \in 1 .. n |-> s[k]]
  PROVE  IsList(s) /\ Len(s) = n
<1>1. \A k \in 1 .. n : s[k] \in ToSet(s)
  BY DEF ToSet
<1>2. s \in [1 .. n -> ToSet(s)]
  BY <1>1
<1>3. \A S : s \in [1 .. n -> S] => s \in Seq(S) /\ Len(s) = n
  OBVIOUS
<1> QED BY <1>2, <1>3 DEF IsList

\* What is worked out of the candles depends on nothing else.
LEMMA WorkedOutOfCandles ==
  ASSUME NEW d, NEW e, e.hist = d.hist, e.incr = d.incr
  PROVE  /\ Length(e) = Length(d) /\ BuildHeat(e) = BuildHeat(d)
         /\ e.range = d.range => RangeOfData(e) = RangeOfData(d)
         /\ e.index = d.index => (IndexIsRight(d) <=> IndexIsRight(e))
<1>1. Length(e) = Length(d) /\ All(e) = All(d)
  BY DEF Length, All
<1>2. BuildHeat(e) = BuildHeat(d)
  BY <1>1 DEF BuildHeat
<1>3. e.range = d.range => RangeOfData(e) = RangeOfData(d)
  BY <1>1 DEF RangeOfData
<1> QED BY <1>1, <1>2, <1>3 DEF IndexIsRight

\* Without caches there is nothing to be out of date.
LEMMA InvalidatedIsFresh ==
  ASSUME NEW d, DOMAIN d = DataFields, IsList(d.hist), IsList(d.incr), IndexIsRight(d)
  PROVE  LET e == InvalidateCache(d) IN
         DataInv(e) /\ e.hist = d.hist /\ e.incr = d.incr /\ e.range = d.range
<1> DEFINE e == InvalidateCache(d)
<1>1. /\ DOMAIN e = DataFields /\ e.hist = d.hist /\ e.incr = d.incr /\ e.range = d.range /\ e.index = d.index
      /\ e.cal = None /\ e.heat = None
  BY DEF InvalidateCache, DataFields
<1> HIDE DEF e
<1> QED BY <1>1, WorkedOutOfCandles DEF DataInv, CachesAreFresh, e

LEMMA RangesOfData ==
  ASSUME NEW d, DataInv(d)
  PROVE  LET e == CalculateDataRanges(d) IN
         DataInv(e) /\ e.hist = d.hist /\ e.incr = d.incr /\ e.range = d.range
<1> DEFINE e == CalculateDataRanges(d)
<1>1. /\ DOMAIN e = DataFields /\ e.hist = d.hist /\ e.incr = d.incr /\ e.range = d.range /\ e.index = d.index
      /\ e.cal \in {d.cal, RangeOfData(d)} /\ e.heat \in {d.heat, BuildHeat(d)}
  BY DEF CalculateDataRanges, DataInv, DataFields
<1> HIDE DEF e
<1>2. BuildHeat(e) = BuildHeat(d) /\ RangeOfData(e) = RangeOfData(d) /\ IndexIsRight(e)
  BY <1>1, WorkedOutOfCandles DEF DataInv
<1> QED BY <1>1, <1>2 DEF DataInv, CachesAreFresh, e

LEMMA NewRangesOfData ==
  ASSUME NEW d, DataInv(d), NEW start, NEW count, NEW l
  PROVE  DataInv(UpdateVisibleRange(d, start, count)) /\ DataInv(InitializeVisibleRange(d, l))
<1> DEFINE w(r) == [d EXCEPT !.range = r]
<1>1. ASSUME NEW r PROVE DataInv(InvalidateCache(w(r)))
  <2>1. DOMAIN w(r) = DataFields /\ w(r).hist = d.hist /\ w(r).incr = d.incr /\ w(r).index = d.index
    BY DEF DataInv, DataFields
  <2> HIDE DEF w
  <2> QED BY <2>1, InvalidatedIsFresh, WorkedOutOfCandles DEF DataInv
<1>2. \E r : UpdateVisibleRange(d, start, count) \in {d, InvalidateCache(w(r))}
  BY DEF UpdateVisibleRange
<1>3. InitializeVisibleRange(d, l) = InvalidateCache(w(FromLayout(l, Length(d))))
  BY DEF InitializeVisibleRange
<1> HIDE DEF w
<1> QED BY <1>1, <1>2, <1>3

LEMMA FirstData ==
  ASSUME NEW hist, IsList(hist)
  PROVE  DataInv(SetInitialData(hist))
<1> DEFINE d == [hist |-> hist, incr |-> <<>>, index |-> <<>>, cal |-> None, heat |-> None,
                 range |-> UpdateTotalLen(NewRange(0, 0, 0), Len(hist))]
           e == [d EXCEPT !.heat = BuildHeat(d)]
<1>1. /\ DOMAIN d = DataFields /\ d.hist = hist /\ d.incr = <<>> /\ d.index = <<>> /\ d.cal = None
  BY DEF DataFields
<1>2. SetInitialData(hist) = e
  BY DEF SetInitialData
<1> HIDE DEF d
<1>3. /\ DOMAIN e = DataFields /\ e.hist = d.hist /\ e.incr = d.incr /\ e.index = d.index /\ e.cal = None
      /\ e.heat = BuildHeat(d)
  BY <1>1 DEF DataFields
<1> HIDE DEF e
<1>4. BuildHeat(e) = BuildHeat(d) /\ IsList(<<>>)
  BY <1>3, WorkedOutOfCandles DEF IsList
<1>5. IndexIsRight(e)
  BY <1>1, <1>3 DEF IndexIsRight
<1> QED BY <1>1, <1>2, <1>3, <1>4, <1>5 DEF DataInv, CachesAreFresh

\* One candle: it takes the place of the one of its time, or comes behind.
LEMMA OneMoreCandle ==
  ASSUME NEW d, DataInv(d), NEW item
  PROVE  DataInv(AppendItem(d, item)) /\ Grown(d, AppendItem(d, item), 1)
<1> USE DEF DataInv
<1>0. Len(d.incr) \in Nat /\ DOMAIN d.incr = 1 .. Len(d.incr)
  BY Lists
<1>1. CASE item.ts \in DOMAIN d.index
  <2> DEFINE i == d.index[item.ts]
             list == [d.incr EXCEPT ![i] = item]
             e == [d EXCEPT !.incr = list]
  <2>1. i \in 1 .. Len(d.incr) /\ d.incr[i].ts = item.ts
    BY <1>0, <1>1 DEF IndexIsRight
  <2>2. /\ DOMAIN list = 1 .. Len(d.incr) /\ list[i] = item
        /\ \A j \in 1 .. Len(d.incr) : j # i => list[j] = d.incr[j]
    BY <1>0, <2>1
  <2>3. list = [k \in 1 .. Len(d.incr) |-> list[k]]
    BY <1>0
  <2>4. DOMAIN e = DataFields /\ e.hist = d.hist /\ e.incr = list /\ e.index = d.index /\ e.range = d.range
    BY DEF DataFields
  <2>5. AppendItem(d, item) = InvalidateCache(e)
    BY <1>1 DEF AppendItem
  <2> HIDE DEF e, list
  <2>6. IsList(list) /\ Len(list) = Len(d.incr)
    BY <1>0, <2>3, ListsOfFunctions
  <2>7. \A j \in 1 .. Len(d.incr) : list[j].ts = d.incr[j].ts
    BY <2>1, <2>2
  <2>8. IndexIsRight(e)
    BY <1>0, <2>2, <2>4, <2>7 DEF IndexIsRight
  <2>9. /\ DataInv(AppendItem(d, item)) /\ AppendItem(d, item).hist = d.hist /\ AppendItem(d, item).incr = list
        /\ AppendItem(d, item).range = d.range
    BY <2>4, <2>5, <2>6, <2>8, InvalidatedIsFresh
  <2>10. Ranged(d) => Ranged(AppendItem(d, item))
    BY <2>6, <2>9 DEF Ranged, Length
  <2> QED BY <1>0, <2>6, <2>9, <2>10 DEF Grown
<1>2. CASE item.ts \notin DOMAIN d.index
  <2> DEFINE n == Len(d.incr)
             list == Append(d.incr, item)
             index == [t \in {item.ts} \union DOMAIN d.index |-> IF t = item.ts THEN n + 1 ELSE d.index[t]]
             range == UpdateTotalLen(d.range, Length(d) + 1)
             e == [d EXCEPT !.incr = list, !.index = index, !.range = range]
  <2>1. DOMAIN e = DataFields /\ e.hist = d.hist /\ e.incr = list /\ e.index = index /\ e.range = range
    BY DEF DataFields
  <2>2. AppendItem(d, item) = InvalidateCache(e)
    BY <1>2 DEF AppendItem
  <2> HIDE DEF e
  <2>3. IsList(list) /\ Len(list) = n + 1
    BY Lists
  <2>4. DOMAIN list = 1 .. (n + 1) /\ list[n + 1] = item /\ \A j \in 1 .. n : list[j] = d.incr[j]
    BY Lists
  <2>5. DOMAIN d.index = {d.incr[j].ts : j \in 1 .. n} /\ \A t \in DOMAIN d.index : d.index[t] \in 1 .. n /\ d.incr[d.index[t]].ts = t
    BY <1>0 DEF IndexIsRight
  <2>6. DOMAIN index = {item.ts} \union DOMAIN d.index /\ index[item.ts] = n + 1
        /\ \A t \in DOMAIN d.index : index[t] = d.index[t]
    BY <1>2
  <2>7. n \in Nat
    BY <1>0
  <2> HIDE DEF n, list, index
  <2>8. DOMAIN index = {list[j].ts : j \in 1 .. (n + 1)}
    <3>1. \A j \in 1 .. (n + 1) : j \in 1 .. n \/ j = n + 1
      BY <2>7
    <3>2. 1 .. n \subseteq 1 .. (n + 1) /\ n + 1 \in 1 .. (n + 1)
      BY <2>7
    <3>3. \A j \in 1 .. n : list[j].ts = d.incr[j].ts
      BY <2>4
    <3>4. list[n + 1].ts = item.ts
      BY <2>4
    <3>5. \A t \in DOMAIN index : \E j \in 1 .. (n + 1) : t = list[j].ts
      BY <2>5, <2>6, <3>2, <3>3, <3>4
    <3>6. \A j \in 1 .. (n + 1) : list[j].ts \in DOMAIN index
      BY <2>5, <2>6, <3>1, <3>3, <3>4
    <3> QED BY <3>5, <3>6
  <2>9. \A t \in DOMAIN index : index[t] \in 1 .. (n + 1) /\ list[index[t]].ts = t
    <3>1. ASSUME NEW t \in DOMAIN d.index PROVE index[t] \in 1 .. (n + 1) /\ list[index[t]].ts = t
      BY <2>4, <2>5, <2>6, <2>7
    <3>2. index[item.ts] \in 1 .. (n + 1) /\ list[index[item.ts]].ts = item.ts
      BY <2>4, <2>6, <2>7
    <3> QED BY <2>6, <3>1, <3>2
  <2>10. IndexIsRight(e)
    BY <2>1, <2>4, <2>8, <2>9 DEF IndexIsRight
  <2>11. Len(e.incr) # Len(d.incr) /\ Len(d.incr) <= Len(e.incr)
    BY <2>1, <2>3, <2>7 DEF n
  <2>12. /\ DataInv(AppendItem(d, item)) /\ AppendItem(d, item).hist = d.hist /\ AppendItem(d, item).incr = list
         /\ AppendItem(d, item).range = range
    BY <2>1, <2>2, <2>3, <2>10, InvalidatedIsFresh
  <2>13. ASSUME Ranged(d) PROVE Ranged(AppendItem(d, item))
    <3>1. d.range.start \in Nat /\ d.range.count \in Nat /\ d.range.total = Length(d)
      BY <2>13 DEF Ranged, Within
    <3>2. /\ Len(d.hist) \in Nat /\ Len(d.incr) \in Nat /\ Length(d) = Len(d.hist) + Len(d.incr)
          /\ Length(d) \in Nat
      BY Lengths
    <3>3. range = NewRange(d.range.start, d.range.count, Length(d) + 1)
      <4>1. \A a \in Nat : a + 1 # a
        OBVIOUS
      <4>2. Length(d) + 1 # d.range.total
        BY <3>1, <3>2, <4>1
      <4> QED BY <4>2 DEF UpdateTotalLen, range
    <3> DEFINE f == AppendItem(d, item)  total == Length(d) + 1
    <3> HIDE DEF range, f, total
    <3>4. f.range = range /\ f.hist = d.hist /\ Len(f.incr) = Len(d.incr) + 1
      BY <2>3, <2>12 DEF f, n
    <3>5. Length(f) = total /\ total \in Nat
      <4>1. \A a, b \in Nat : a + (b + 1) = (a + b) + 1 /\ a + b \in Nat /\ a + b + 1 \in Nat
        OBVIOUS
      <4>2. Length(f) = Len(d.hist) + (Len(d.incr) + 1)
        BY <3>4 DEF Length
      <4> QED BY <3>2, <4>1, <4>2 DEF total
    <3>6. range = NewRange(d.range.start, d.range.count, total) /\ d.range.count \in Int
      BY <3>1, <3>3 DEF total
    <3>7. Within(range, total)
      BY <3>1, <3>5, <3>6, NewRangesAreWithin
    <3>8. Ranged(f)
      BY <3>4, <3>5, <3>7 DEF Ranged
    <3> QED BY <3>8 DEF f
  <2> QED BY <2>3, <2>7, <2>11, <2>1, <2>12, <2>13 DEF Grown, n
<1> QED BY <1>1, <1>2

\* A batch, one candle after the other.
LEMMA MoreCandles ==
  ASSUME NEW d, DataInv(d), NEW batch, IsList(batch)
  PROVE  DataInv(AppendItems(d, batch)) /\ Grown(d, AppendItems(d, batch), Len(batch))
<1> DEFINE I == 0 .. Len(batch)
           Made(f, n) == IF n = 0 THEN d ELSE AppendItem(f[n - 1], batch[n])
           after == CHOOSE f : f = [n \in I |-> Made(f, n)]
           Upto(m) == \E f : f = [n \in 0 .. m |-> Made(f, n)]
           Good(n) == DataInv(after[n]) /\ Grown(d, after[n], n)
<1>0. Len(batch) \in Nat
  BY Lists
<1>1. AppendItems(d, batch) = after[Len(batch)]
  BY DEF AppendItems
<1>2. Upto(Len(batch))
  <2> DEFINE Bad == {m \in Nat : ~Upto(m)}
  <2> SUFFICES ASSUME Bad # {} PROVE FALSE
    BY <1>0
  <2>1. PICK m \in Bad : \A k \in Bad : ~(<<k, m>> \in OpToRel(<, Nat))
    <3> HIDE DEF Bad
    <3>1. Bad \subseteq Nat
      BY DEF Bad
    <3> QED BY <3>1, WFMin, NatLessThanWellFounded
  <2>2. m \in Nat /\ ~Upto(m)
    OBVIOUS
  <2>3. m # 0
    <3> DEFINE f == [n \in 0 .. 0 |-> d]
    <3>1. f = [n \in 0 .. 0 |-> Made(f, n)]
      OBVIOUS
    <3> HIDE DEF f
    <3> QED BY <2>2, <3>1
  <2>4. m - 1 \in Nat /\ Upto(m - 1)
    <3>1. m - 1 \in Nat /\ m - 1 < m
      BY <2>2, <2>3
    <3>2. m - 1 \notin Bad
      BY <2>1, <2>2, <3>1 DEF OpToRel
    <3> QED BY <3>1, <3>2
  <2>5. PICK f : f = [n \in 0 .. (m - 1) |-> Made(f, n)]
    BY <2>4
  <2> DEFINE g == [n \in 0 .. m |-> IF n = m THEN AppendItem(f[m - 1], batch[m]) ELSE f[n]]
  <2>6. \A n \in 0 .. m : g[n] = Made(g, n)
    <3> TAKE n \in 0 .. m
    <3>1. CASE n = m
      <4>1. g[m - 1] = f[m - 1]
        BY <2>2, <2>4
      <4> QED BY <2>2, <2>3, <3>1, <4>1
    <3>2. CASE n # m
      <4>1. n \in 0 .. (m - 1) /\ g[n] = f[n] /\ (n # 0 => g[n - 1] = f[n - 1])
        BY <2>2, <3>2
      <4>2. f[n] = Made(f, n)
        BY <2>5, <4>1
      <4> QED BY <4>1, <4>2
    <3> QED BY <3>1, <3>2
  <2>7. g = [n \in 0 .. m |-> Made(g, n)]
    <3>1. g = [n \in 0 .. m |-> g[n]]
      OBVIOUS
    <3> HIDE DEF g
    <3> QED BY <2>6, <3>1
  <2> HIDE DEF g
  <2> QED BY <2>2, <2>7
<1>3. after = [n \in I |-> Made(after, n)]
  BY <1>2
<1> HIDE DEF after
<1>4. after[0] = d /\ \A n \in 1 .. Len(batch) : after[n] = AppendItem(after[n - 1], batch[n])
  <2>1. \A n \in I : after[n] = Made(after, n)
    BY <1>3
  <2>2. 0 \in I /\ \A n \in 1 .. Len(batch) : n \in I /\ n # 0
    BY <1>0
  <2> QED BY <2>1, <2>2
<1>5. ASSUME NEW n \in 1 .. Len(batch), Good(n - 1) PROVE Good(n)
  <2>1. DataInv(after[n]) /\ Grown(after[n - 1], after[n], 1)
    BY <1>4, <1>5, OneMoreCandle
  <2>2. Len(d.incr) \in Nat /\ Len(after[n - 1].incr) \in Nat /\ Len(after[n].incr) \in Nat
    BY <1>5, <2>1, Lists DEF DataInv
  <2>3. n \in Nat /\ Len(after[n].incr) <= Len(d.incr) + n
    <3>1. \A a, b, c \in Nat : c <= b + 1 /\ b <= a + (n - 1) => c <= a + n
      BY <1>0
    <3>2. Len(after[n].incr) <= Len(after[n - 1].incr) + 1 /\ Len(after[n - 1].incr) <= Len(d.incr) + (n - 1)
      BY <1>5, <2>1 DEF Grown
    <3> QED BY <1>0, <2>2, <3>1, <3>2
  <2>4. Ranged(d) => Ranged(after[n])
    BY <1>5, <2>1 DEF Grown
  <2>5. after[n].hist = d.hist /\ Len(d.incr) <= Len(after[n].incr)
        /\ (Len(after[n].incr) = Len(d.incr) => after[n].range = d.range)
    BY <1>5, <2>1, <2>2 DEF Grown
  <2> QED BY <2>1, <2>3, <2>4, <2>5 DEF Grown
<1>6. Good(0)
  <2>1. Len(d.incr) \in Nat
    BY Lists DEF DataInv
  <2> QED BY <1>4, <2>1 DEF Grown
<1>7. \A n \in I : Good(n)
  <2> DEFINE Bad == {n \in I : ~Good(n)}
  <2> SUFFICES ASSUME Bad # {} PROVE FALSE
    OBVIOUS
  <2> HIDE DEF Good
  <2>1. PICK n \in Bad : \A k \in Bad : ~(<<k, n>> \in OpToRel(<, Nat))
    <3>1. Bad \subseteq Nat
      BY <1>0
    <3> HIDE DEF Bad
    <3> QED BY <3>1, WFMin, NatLessThanWellFounded
  <2>2. n \in 1 .. Len(batch)
    BY <1>0, <1>6
  <2>3. n - 1 \in I /\ n - 1 < n /\ n - 1 \in Nat /\ n \in Nat
    BY <1>0, <2>2
  <2>4. n - 1 \notin Bad
    BY <2>1, <2>3 DEF OpToRel
  <2> QED BY <1>5, <2>2, <2>3, <2>4
<1>8. Len(batch) \in I
  BY <1>0
<1> HIDE DEF Good
<1>9. Good(Len(batch))
  BY <1>7, <1>8
<1> QED BY <1>1, <1>9 DEF Good

LEMMA Greatests ==
  ASSUME NEW n \in Nat, NEW S \in SUBSET (1 .. n), S # {}
  PROVE  Max(S) \in S
<1> DEFINE D == {n - x : x \in S}
<1>1. D \subseteq Nat /\ D # {}
  <2>1. \A x \in S : n - x \in Nat
    OBVIOUS
  <2>2. D # {}
    OBVIOUS
  <2> QED BY <2>1, <2>2
<1>2. PICK m \in D : \A k \in D : ~(<<k, m>> \in OpToRel(<, Nat))
  <2> HIDE DEF D
  <2> QED BY <1>1, WFMin, NatLessThanWellFounded
<1>3. PICK x \in S : m = n - x
  OBVIOUS
<1>4. ASSUME NEW y \in S PROVE x >= y
  <2>1. n - y \in D /\ n - y \in Nat /\ m \in Nat
    OBVIOUS
  <2>2. ~(n - y < m)
    BY <1>2, <2>1 DEF OpToRel
  <2> QED BY <1>3, <2>2
<1> QED BY <1>4 DEF Max

\* A merge adds at least one candle or changes nothing.
LEMMA MergedCandles ==
  ASSUME NEW d, DataInv(d), NEW batch, IsList(batch)
  PROVE  DataInv(MergeItems(d, batch)) /\ Grown(d, MergeItems(d, batch), Len(batch))
<1> DEFINE all == d.incr \o batch
           kept == {j \in DOMAIN all : j <= Len(d.incr) \/ all[j].ts \notin DOMAIN d.index}
           sorted == SortByTime(all, kept)
           w(r) == [d EXCEPT !.incr = sorted, !.index = IndexOf(sorted), !.range = r]
           m(r) == InvalidateCache(w(r))
           e(r) == [m(r) EXCEPT !.heat = BuildHeat(m(r))]
<1>0. Len(d.incr) \in Nat /\ DOMAIN d.incr = 1 .. Len(d.incr) /\ Len(batch) \in Nat
  BY Lists DEF DataInv
<1>1. DOMAIN all = 1 .. (Len(d.incr) + Len(batch))
  BY <1>0
<1> DEFINE range == UpdateTotalLen(d.range, Len(d.hist) + Len(sorted))
<1>2. MergeItems(d, batch) = IF kept = DOMAIN d.incr THEN d ELSE e(range)
  BY DEF MergeItems
<1>3. DOMAIN d.incr \subseteq kept
  BY <1>0, <1>1
<1>4. IsFiniteSet(kept) /\ Cardinality(kept) \in Nat /\ Cardinality(kept) <= Len(d.incr) + Len(batch)
      /\ (kept # DOMAIN d.incr => Len(d.incr) < Cardinality(kept))
  <2>1. /\ IsFiniteSet(1 .. (Len(d.incr) + Len(batch)))
        /\ Cardinality(1 .. (Len(d.incr) + Len(batch))) = Len(d.incr) + Len(batch)
        /\ Cardinality(1 .. Len(d.incr)) = Len(d.incr)
    <3>1. 1 \in Int /\ Len(d.incr) \in Int /\ Len(d.incr) + Len(batch) \in Int
      BY <1>0
    <3>2. IsFiniteSet(1 .. (Len(d.incr) + Len(batch)))
      BY <3>1, FS_Interval
    <3>3. Cardinality(1 .. Len(d.incr)) = IF 1 > Len(d.incr) THEN 0 ELSE Len(d.incr) - 1 + 1
      BY <3>1, FS_Interval
    <3>4. Cardinality(1 .. (Len(d.incr) + Len(batch)))
            = IF 1 > Len(d.incr) + Len(batch) THEN 0 ELSE (Len(d.incr) + Len(batch)) - 1 + 1
      BY <3>1, FS_Interval
    <3> QED BY <1>0, <3>2, <3>3, <3>4
  <2>2. kept \subseteq 1 .. (Len(d.incr) + Len(batch))
    BY <1>1
  <2> HIDE DEF kept
  <2>3. IsFiniteSet(kept)
    BY <2>1, <2>2, FS_Subset
  <2>4. Cardinality(kept) \in Nat /\ Cardinality(kept) <= Len(d.incr) + Len(batch)
    BY <2>1, <2>2, FS_Subset, FS_CardinalityType
  <2> QED BY <1>0, <1>3, <2>1, <2>3, <2>4, FS_Subset, FS_CardinalityType
<1>5. IsList(sorted) /\ Len(sorted) = Cardinality(kept)
  <2>1. \E f : sorted = [k \in 1 .. Cardinality(kept) |-> f[k]]
    <3> DEFINE Behind(j) == {i \in kept : all[i].ts < all[j].ts \/ (all[i].ts = all[j].ts /\ i < j)}
               h(k) == all[CHOOSE j \in kept : Cardinality(Behind(j)) = k - 1]
               f == [k \in 1 .. Cardinality(kept) |-> h(k)]
    <3>1. sorted = f
      BY DEF SortByTime
    <3>2. f = [k \in 1 .. Cardinality(kept) |-> f[k]]
      <4> HIDE DEF h, kept
      <4> QED OBVIOUS
    <3> HIDE DEF f, sorted
    <3> QED BY <3>1, <3>2
  <2> HIDE DEF sorted, kept
  <2>2. sorted = [k \in 1 .. Cardinality(kept) |-> sorted[k]]
    BY <2>1
  <2> QED BY <1>4, <2>2, ListsOfFunctions
<1> HIDE DEF kept, sorted
<1>6. DOMAIN sorted = 1 .. Len(sorted) /\ Len(sorted) \in Nat
  BY <1>5, Lists
<1>7. ASSUME NEW r PROVE DataInv(e(r)) /\ e(r).hist = d.hist /\ e(r).incr = sorted /\ e(r).range = r
  <2>1. /\ DOMAIN w(r) = DataFields /\ w(r).hist = d.hist /\ w(r).incr = sorted /\ w(r).index = IndexOf(sorted)
        /\ w(r).range = r
    BY DEF DataInv, DataFields
  <2> HIDE DEF w
  <2>2. IndexIsRight(w(r))
    <3>1. DOMAIN IndexOf(sorted) = {sorted[j].ts : j \in DOMAIN sorted}
      BY DEF IndexOf
    <3>2. ASSUME NEW t \in DOMAIN IndexOf(sorted)
          PROVE  IndexOf(sorted)[t] \in DOMAIN sorted /\ sorted[IndexOf(sorted)[t]].ts = t
      <4> DEFINE S == {j \in DOMAIN sorted : sorted[j].ts = t}
      <4>1. S # {} /\ S \in SUBSET (1 .. Len(sorted))
        BY <1>6, <3>1
      <4>2. IndexOf(sorted)[t] = Max(S)
        BY <3>1 DEF IndexOf
      <4>3. Max(S) \in S
        <5> HIDE DEF S
        <5> QED BY <1>6, <4>1, Greatests
      <4> QED BY <4>2, <4>3
    <3> QED BY <2>1, <3>1, <3>2 DEF IndexIsRight
  <2>3. DataInv(m(r)) /\ m(r).hist = d.hist /\ m(r).incr = sorted /\ m(r).range = r
    BY <1>5, <2>1, <2>2, InvalidatedIsFresh DEF DataInv
  <2> HIDE DEF m
  <2>4. /\ DOMAIN e(r) = DataFields /\ e(r).hist = d.hist /\ e(r).incr = sorted /\ e(r).range = m(r).range
        /\ e(r).index = m(r).index /\ e(r).cal = m(r).cal /\ e(r).heat = BuildHeat(m(r))
    BY <2>3 DEF DataInv, DataFields
  <2> HIDE DEF e
  <2>5. /\ BuildHeat(e(r)) = BuildHeat(m(r)) /\ RangeOfData(e(r)) = RangeOfData(m(r)) /\ IndexIsRight(e(r))
    BY <2>3, <2>4, WorkedOutOfCandles DEF DataInv
  <2> QED BY <2>3, <2>4, <2>5 DEF DataInv, CachesAreFresh
<1> HIDE DEF e
<1>8. ASSUME Ranged(d), kept # DOMAIN d.incr PROVE Ranged(e(range))
  <2>1. d.range.start \in Nat /\ d.range.count \in Nat /\ d.range.total = Length(d)
    BY <1>8 DEF Ranged, Within
  <2>2. Len(d.hist) \in Nat /\ Len(sorted) \in Nat /\ Len(d.incr) < Len(sorted)
    BY <1>4, <1>5, <1>8, Lists DEF DataInv
  <2>3. range = NewRange(d.range.start, d.range.count, Len(d.hist) + Len(sorted))
    <3>1. d.range.total = Len(d.hist) + Len(d.incr)
      BY <2>1 DEF Length
    <3>2. \A h, a, b \in Nat : a < b => h + b # h + a
      OBVIOUS
    <3> QED BY <1>0, <2>2, <3>1, <3>2 DEF UpdateTotalLen
  <2>4. e(range).range = range /\ Length(e(range)) = Len(d.hist) + Len(sorted)
    BY <1>7 DEF Length
  <2> HIDE DEF range
  <2>5. d.range.count \in Int /\ Len(d.hist) + Len(sorted) \in Nat
    <3>1. \A a, b \in Nat : a + b \in Nat
      OBVIOUS
    <3> QED BY <2>1, <2>2, <3>1
  <2>6. Within(range, Len(d.hist) + Len(sorted))
    BY <2>1, <2>3, <2>5, NewRangesAreWithin
  <2> QED BY <2>4, <2>6 DEF Ranged
<1>9. Ranged(d) => Ranged(MergeItems(d, batch))
  BY <1>2, <1>8
<1> QED BY <1>0, <1>2, <1>4, <1>5, <1>7, <1>9 DEF Grown

-----------------------------------------------------------------------------
(* What is painted.  A picture is worked out of these fields, but for the  *)
(* order book's, which has a cache of its own.                             *)

Alike(c, d) ==
  /\ d.dm = c.dm /\ d.layout = c.layout /\ d.mode = c.mode /\ d.look = c.look
  /\ d.mouse = c.mouse /\ d.drag = c.drag

LEMMA CandlesAlike ==
  ASSUME NEW c, NEW d, Alike(c, d)
  PROVE  TimeLabels(d) = TimeLabels(c) /\ Candles(d) = Candles(c)
BY DEF Alike, TimeLabels, Candles

LEMMA BaseAlike ==
  ASSUME NEW c, NEW d, Alike(c, d)
  PROVE  Axis(d) = Axis(c) /\ Header(d) = Header(c)
BY CandlesAlike DEF Alike, Axis, Header, Background, PriceAxis, VolumeAxis, AxisHeader, Prices, Volumes, Mapper, Cal, Place

LEMMA MainAlike ==
  ASSUME NEW c, NEW d, Alike(c, d)
  PROVE  Price(d) = Price(c) /\ VolumeBars(d) = VolumeBars(c) /\ Heat(d) = Heat(c) /\ Lines(d) = Lines(c)
<1>1. Price(d) = Price(c) /\ VolumeBars(d) = VolumeBars(c)
  BY CandlesAlike DEF Alike, Price, VolumeBars, Prices, Volumes, Mapper, Cal, Place
<1>2. Heat(d) = Heat(c)
  BY DEF Alike, Heat, HeatRows, Mapper, Place
<1>3. Lines(d) = Lines(c)
  BY CandlesAlike DEF Alike, Lines, Mapper, Prices, Cal, Place
<1> QED BY <1>1, <1>2, <1>3

LEMMA OverlayAlike ==
  ASSUME NEW c, NEW d, Alike(c, d)
  PROVE  Navigator(d) = Navigator(c) /\ Overlay(d) = Overlay(c)
<1>1. Navigator(d) = Navigator(c)
  BY DEF Alike, Navigator, VolumeArea, RangeIndicator, Place
<1>2. Overlay(d) = Overlay(c)
  BY DEF Alike, Overlay, Crosshair, Tooltip, Prices, Mapper, Cal, Place, Volumes, Hovered, TooltipBox,
    KmapLines, HeatmapLines, TooltipAt, AllPrices, Level
<1> QED BY <1>1, <1>2

LEMMA PicturesAlike ==
  ASSUME NEW c, NEW d, Alike(c, d), NEW p \in DOMAIN Strategies, p # "book"
  PROVE  Picture(d, p) = Picture(c, p)
<1>1. p \in {"axis", "header", "price", "heat", "volume", "line", "navigator", "crosshair"}
  BY DEF Strategies
<1> QED BY <1>1, BaseAlike, MainAlike, OverlayAlike DEF Picture

ChartInv(c) == DOMAIN c = ChartFields /\ DataInv(c.dm)

\* From c to d there is nothing else to be seen of candles, mode and canvas.
Remains(c, d) ==
  /\ d.dm.range = c.dm.range /\ Length(d.dm) = Length(c.dm)
  /\ d.mode = c.mode /\ d.canvas = c.canvas /\ d.ready = c.ready

\* A chart whose layers have all been asked to be painted.
Repainted(d) == \E x : ChartInv(x) /\ x.dirty = Layers /\ d = Render(x)

AllShown(d) == d.dirty = {} /\ \A l \in Layers : Shows(d, l)

LEMMA RenderKeepsData ==
  ASSUME NEW c, ChartInv(c)
  PROVE  ChartInv(Render(c)) /\ Remains(c, Render(c))
<1> DEFINE d == Render(c)
<1>1. /\ DOMAIN d = ChartFields /\ d.dm \in {c.dm, CalculateDataRanges(c.dm)}
      /\ d.mode = c.mode /\ d.canvas = c.canvas /\ d.ready = c.ready
  BY DEF ChartInv, ChartFields, Render, ClearAllDirtyFlags
<1> HIDE DEF d
<1>2. DataInv(d.dm) /\ d.dm.hist = c.dm.hist /\ d.dm.incr = c.dm.incr /\ d.dm.range = c.dm.range
  BY <1>1, RangesOfData DEF ChartInv
<1> QED BY <1>1, <1>2 DEF ChartInv, Remains, Length, d

\* Painting every layer leaves each as it would be painted from scratch.
LEMMA RepaintingShowsAll ==
  ASSUME NEW d, Repainted(d), d.ready, HasSize(d)
  PROVE  AllShown(d)
<1>1. PICK x : ChartInv(x) /\ x.dirty = Layers /\ d = Render(x)
  BY DEF Repainted
<1>2. x.ready /\ HasSize(x)
  BY <1>1, RenderKeepsData DEF Remains, HasSize
<1> DEFINE m == [x EXCEPT !.dm = CalculateDataRanges(x.dm)]
           pictures == [l \in Layers |-> IF l \in x.dirty THEN Paint(m, l) ELSE x.shown[l]]
           e == ClearAllDirtyFlags([m EXCEPT !.shown = pictures, !.book = BookCache(m)])
<1>3. d = e
  BY <1>1, <1>2 DEF Render, HasContext, Layers
<1>4. DOMAIN m = ChartFields
  BY <1>1 DEF ChartInv, ChartFields
<1> HIDE DEF m, pictures
<1>5. d.dirty = {} /\ d.shown = pictures /\ Alike(m, d)
  BY <1>3, <1>4 DEF ClearAllDirtyFlags, Alike, ChartFields
<1>6. ASSUME NEW l \in Layers PROVE Shows(d, l)
  <2>1. d.shown[l] = Paint(m, l)
    BY <1>1, <1>5 DEF pictures
  <2>2. DOMAIN Paint(m, l) = OfLayer[l] /\ DOMAIN Paint(d, l) = OfLayer[l] /\ OfLayer[l] \subseteq DOMAIN Strategies
    BY DEF Paint, OfLayer
  <2>3. ASSUME NEW p \in OfLayer[l] \ {"book"} PROVE Paint(m, l)[p] = Paint(d, l)[p]
    <3>1. Picture(m, p) = Picture(d, p) /\ d.mode = m.mode
      BY <1>5, <2>2, PicturesAlike DEF Alike
    <3> QED BY <3>1 DEF Paint
  <2> QED BY <2>1, <2>2, <2>3 DEF Shows
<1> QED BY <1>5, <1>6 DEF AllShown

-----------------------------------------------------------------------------
(* The calls.                                                              *)

\* From c to d only fields have changed that candles, mode and canvas are not.
Elsewhere(c, d) ==
  DOMAIN d = ChartFields /\ d.dm = c.dm /\ d.mode = c.mode /\ d.canvas = c.canvas /\ d.ready = c.ready

\* What a call on a chart c leaves.
Outcome(c, d) == ChartInv(d) /\ (Remains(c, d) \/ Repainted(d) \/ ~d.ready)

LEMMA ElsewhereRemains ==
  ASSUME NEW c, NEW d, ChartInv(c), Elsewhere(c, d)
  PROVE  /\ ChartInv(d) /\ Remains(c, d) /\ Outcome(c, d)
         /\ ChartInv(Render(d)) /\ Remains(c, Render(d)) /\ Outcome(c, Render(d))
<1>1. ChartInv(d) /\ Remains(c, d)
  BY DEF Elsewhere, ChartInv, Remains
<1>2. ChartInv(Render(d)) /\ Remains(d, Render(d))
  BY <1>1, RenderKeepsData
<1> QED BY <1>1, <1>2 DEF Remains, Outcome

LEMMA LayoutChangeRepaints ==
  ASSUME NEW c, ChartInv(c), NEW b
  PROVE  Outcome(b, HandleLayoutChange(c))
<1> DEFINE x == SetAllDirty(UpdateLayout(c))
<1>1. DOMAIN x = ChartFields /\ x.dm = c.dm /\ x.dirty = Layers
  BY DEF SetAllDirty, UpdateLayout, ChartInv, ChartFields
<1>2. HandleLayoutChange(c) = Render(x)
  BY DEF HandleLayoutChange
<1> HIDE DEF x
<1>3. ChartInv(x) /\ ChartInv(Render(x))
  BY <1>1, RenderKeepsData DEF ChartInv
<1> QED BY <1>1, <1>2, <1>3 DEF Outcome, Repainted

LEMMA OtherDataManager ==
  ASSUME NEW c, ChartInv(c), NEW e, DataInv(e)
  PROVE  LET d == [c EXCEPT !.dm = e] IN
         /\ ChartInv(d) /\ d.dm = e /\ d.mode = c.mode /\ d.canvas = c.canvas /\ d.ready = c.ready
         /\ d.dirty = c.dirty /\ d.layout = c.layout
BY DEF ChartInv, ChartFields

\* New candles: one more is painted, and one that replaces another moves nothing.
LEMMA CandlesCome ==
  ASSUME NEW c, ChartInv(c), NEW e, DataInv(e), NEW some, Grown(c.dm, e, some)
  PROVE  LET d == [c EXCEPT !.dm = e] IN
         Outcome(c, IF Length(e) > Length(c.dm) THEN HandleLayoutChange(d) ELSE d)
<1> DEFINE d == [c EXCEPT !.dm = e]
<1>1. ChartInv(d) /\ d.dm = e /\ d.mode = c.mode /\ d.canvas = c.canvas /\ d.ready = c.ready
  BY OtherDataManager
<1> HIDE DEF d
<1>2. Outcome(c, HandleLayoutChange(d))
  BY <1>1, LayoutChangeRepaints
<1>3. ASSUME ~(Length(e) > Length(c.dm)) PROVE Remains(c, d)
  <2>1. Len(e.hist) \in Nat /\ Len(e.incr) \in Nat /\ Len(c.dm.incr) \in Nat
    BY Lists DEF DataInv, ChartInv
  <2>2. Len(e.incr) = Len(c.dm.incr)
    <3>1. Length(e) = Len(e.hist) + Len(e.incr) /\ Length(c.dm) = Len(e.hist) + Len(c.dm.incr)
      BY DEF Grown, Length
    <3>2. Len(c.dm.incr) <= Len(e.incr)
      BY DEF Grown
    <3>3. \A h, a, b \in Nat : ~(h + a > h + b) /\ b <= a => a = b
      OBVIOUS
    <3> QED BY <1>3, <2>1, <3>1, <3>2, <3>3
  <2> QED BY <1>1, <2>2 DEF Grown, Length, Remains
<1> QED BY <1>1, <1>2, <1>3 DEF Outcome, d

LEMMA RecalculationIsSound ==
  ASSUME NEW c, ChartInv(c)
  PROVE  ChartInv(FullRecalculate(c)) /\ FullRecalculate(c).dirty = c.dirty
<1> DEFINE u == UpdateLayout(c)
           w == [u EXCEPT !.dm = InitializeVisibleRange(u.dm, u.layout)]
           v == UpdateLayout(w)
           x == [v EXCEPT !.dm = CalculateDataRanges(v.dm)]
           Fine(d) == ChartInv(d) /\ d.dirty = c.dirty
<1>1. ASSUME NEW d, Fine(d) PROVE Fine(UpdateLayout(d))
  BY <1>1 DEF UpdateLayout, ChartInv, ChartFields
<1>2. Fine(u)
  BY <1>1
<1>3. Fine(w)
  <2> HIDE DEF u
  <2> QED BY <1>2, NewRangesOfData, OtherDataManager DEF ChartInv
<1>4. Fine(v)
  <2> HIDE DEF w
  <2> QED BY <1>1, <1>3
<1>5. Fine(x)
  <2> HIDE DEF v
  <2> QED BY <1>4, RangesOfData, OtherDataManager DEF ChartInv
<1>6. FullRecalculate(c) \in {c, u, x}
  BY DEF FullRecalculate
<1> HIDE DEF u, w, v, x
<1> QED BY <1>2, <1>5, <1>6

LEMMA CanvasesRepaint ==
  ASSUME NEW c, ChartInv(c), NEW size
  PROVE  LET d == [c EXCEPT !.canvas = size] IN
         /\ ~c.ready => Outcome(c, d)
         /\ Outcome(c, Render(FullRecalculate(OnCanvases(d, NewCanvasManager))))
<1> DEFINE d == [c EXCEPT !.canvas = size]
           e == OnCanvases(d, NewCanvasManager)
<1>1. DOMAIN d = ChartFields /\ d.dm = c.dm /\ d.ready = c.ready
  BY DEF ChartInv, ChartFields
<1> HIDE DEF d
<1>2. DOMAIN e = ChartFields /\ e.dm = c.dm /\ e.dirty = Layers
  BY <1>1 DEF OnCanvases, NewCanvasManager, ChartFields
<1> HIDE DEF e
<1>3. ChartInv(d) /\ ChartInv(e)
  BY <1>1, <1>2 DEF ChartInv
<1>4. ChartInv(FullRecalculate(e)) /\ FullRecalculate(e).dirty = Layers
  BY <1>2, <1>3, RecalculationIsSound
<1>5. ChartInv(Render(FullRecalculate(e))) /\ Repainted(Render(FullRecalculate(e)))
  BY <1>4, RenderKeepsData DEF Repainted
<1> QED BY <1>1, <1>3, <1>5 DEF Outcome, d, e

LEMMA ResizesRepaint ==
  ASSUME NEW c, ChartInv(c), NEW size, NEW blank
  PROVE  LET d == UpdateLayout([c EXCEPT !.canvas = size, !.shown["Overlay"] = blank])
         IN  Outcome(c, HandleLayoutChange([d EXCEPT !.dm = InitializeVisibleRange(@, d.layout)]))
<1> DEFINE d == UpdateLayout([c EXCEPT !.canvas = size, !.shown["Overlay"] = blank])
<1>1. ChartInv(d)
  BY DEF UpdateLayout, ChartInv, ChartFields
<1> HIDE DEF d
<1>2. ChartInv([d EXCEPT !.dm = InitializeVisibleRange(d.dm, d.layout)])
  BY <1>1, NewRangesOfData, OtherDataManager DEF ChartInv
<1>3. Outcome(c, HandleLayoutChange([d EXCEPT !.dm = InitializeVisibleRange(d.dm, d.layout)]))
  BY <1>2, LayoutChangeRepaints
<1> QED BY <1>3 DEF d

\* The mouse, when it moves, takes hold, lets go or leaves.
LEMMA MovesOfTheMouse ==
  ASSUME NEW c, ChartInv(c), NEW p
  PROVE  /\ Elsewhere(c, MoveTo(c, p))
         /\ Outcome(c, DragTo(c, p)) /\ Outcome(c, HoverAt(c, p)) /\ Outcome(c, Press(c, p))
         /\ Outcome(c, Release(c)) /\ Outcome(c, Leave(c))
<1>0. Elsewhere(c, c) /\ Outcome(c, c)
  BY ElsewhereRemains DEF Elsewhere, ChartInv
<1>1. Elsewhere(c, MoveTo(c, p))
  BY DEF MoveTo, Elsewhere, ChartInv, ChartFields
<1>2. Outcome(c, DragTo(c, p))
  <2>1. ASSUME NEW s, NEW n PROVE Outcome(c, HandleLayoutChange([c EXCEPT !.dm = UpdateVisibleRange(c.dm, s, n)]))
    <3>1. ChartInv([c EXCEPT !.dm = UpdateVisibleRange(c.dm, s, n)])
      BY NewRangesOfData, OtherDataManager DEF ChartInv
    <3> QED BY <3>1, LayoutChangeRepaints
  <2>2. \E s, n : DragTo(c, p) \in {c, HandleLayoutChange([c EXCEPT !.dm = UpdateVisibleRange(c.dm, s, n)])}
    BY DEF DragTo
  <2> QED BY <1>0, <2>1, <2>2
<1>3. Outcome(c, HoverAt(c, p))
  <2> DEFINE u == UpdateHoverStatus(c, p)
  <2>1. Elsewhere(c, u)
    BY DEF UpdateHoverStatus, Elsewhere, ChartInv, ChartFields
  <2>2. HoverAt(c, p) \in {Render(u), Render(SetDirty(u, {"Overlay", "Main"}))}
    BY DEF HoverAt
  <2> HIDE DEF u
  <2>3. Elsewhere(c, SetDirty(u, {"Overlay", "Main"}))
    BY <2>1 DEF SetDirty, Elsewhere, ChartFields
  <2> QED BY <2>1, <2>2, <2>3, ElsewhereRemains
<1>4. Outcome(c, Press(c, p))
  <2> DEFINE d == [c EXCEPT !.mouse.dragging = TRUE, !.mouse.handle = HandleAt(c, p),
                !.drag = [dragging |-> TRUE, x |-> p.x, handle |-> HandleAt(c, p), start |-> c.dm.range.start, count |-> c.dm.range.count]]
  <2>1. Elsewhere(c, d)
    BY DEF Elsewhere, ChartInv, ChartFields
  <2>2. Press(c, p) \in {c, Render(d)}
    BY DEF Press
  <2> HIDE DEF d
  <2> QED BY <1>0, <2>1, <2>2, ElsewhereRemains
<1>5. Outcome(c, Release(c))
  <2> DEFINE d == [c EXCEPT !.mouse.dragging = FALSE, !.mouse.handle = "none",
                            !.drag.dragging = FALSE, !.drag.handle = "none"]
  <2>1. ChartInv(d)
    BY DEF ChartInv, ChartFields
  <2>2. Release(c) \in {c, HandleLayoutChange(d)}
    BY DEF Release
  <2> HIDE DEF d
  <2> QED BY <1>0, <2>1, <2>2, LayoutChangeRepaints
<1>6. Outcome(c, Leave(c))
  <2> DEFINE w(m, l) == [c EXCEPT !.mouse = m, !.dirty = l]
  <2>1. \E m, l : Leave(c) = Render(w(m, l))
    BY DEF Leave
  <2>2. ASSUME NEW m, NEW l PROVE Elsewhere(c, w(m, l))
    BY DEF Elsewhere, ChartInv, ChartFields
  <2> HIDE DEF w
  <2> QED BY <2>1, <2>2, ElsewhereRemains
<1> QED BY <1>1, <1>2, <1>3, <1>4, <1>5, <1>6

LEMMA ChartStep ==
  ChartInv(chart) /\ [ChartNext]_chartVars =>
    /\ ChartInv(chart)'
    /\ Outcome(chart, chart') \/ \E p \in Points, down \in BOOLEAN : NavigatorWheel(p, down)
<1> SUFFICES ASSUME ChartInv(chart), [ChartNext]_chartVars
             PROVE  /\ ChartInv(chart')
                    /\ Outcome(chart, chart') \/ \E p \in Points, down \in BOOLEAN : NavigatorWheel(p, down)
  OBVIOUS
<1>0. Elsewhere(chart, chart) /\ Outcome(chart, chart)
  BY ElsewhereRemains DEF Elsewhere, ChartInv
<1>1. ASSUME NEW size \in Resizes, NEW given \in BOOLEAN, SetCanvases(size, given) PROVE Outcome(chart, chart')
  BY <1>1, CanvasesRepaint DEF SetCanvases, Ends
<1>2. ASSUME DrawAll PROVE Outcome(chart, chart')
  BY <1>0, <1>2, ElsewhereRemains DEF DrawAll, Ends
<1>3. ASSUME NEW batch \in Batches, AppendData(batch) \/ MergeData(batch) PROVE Outcome(chart, chart')
  <2>1. IsList(batch)
    BY CandlesAssumption DEF IsList
  <2>2. PICK e \in {AppendItems(chart.dm, batch), MergeItems(chart.dm, batch)} :
          chart' = IF Length(e) > Length(chart.dm) THEN HandleLayoutChange([chart EXCEPT !.dm = e])
                   ELSE [chart EXCEPT !.dm = e]
    <3> DEFINE w(x) == [chart EXCEPT !.dm = x]
               Left(x) == IF Length(w(x).dm) > Length(chart.dm) THEN HandleLayoutChange(w(x)) ELSE w(x)
    <3>1. chart' = Left(AppendItems(chart.dm, batch)) \/ chart' = Left(MergeItems(chart.dm, batch))
      BY <1>3, Zenon DEF AppendData, MergeData, Ends
    <3>2. \A x : w(x).dm = x
      BY DEF ChartInv, ChartFields
    <3> QED BY <3>1, <3>2
  <2>3. DataInv(e) /\ Grown(chart.dm, e, Len(batch))
    BY <2>1, MoreCandles, MergedCandles DEF ChartInv
  <2> QED BY <2>2, <2>3, CandlesCome
<1>4. ASSUME NEW p \in Points, MouseMove(p) PROVE Outcome(chart, chart')
  <2> DEFINE c == MoveTo(chart, p)
  <2>1. ChartInv(c) /\ Remains(chart, c)
    BY MovesOfTheMouse, ElsewhereRemains
  <2>2. Outcome(c, DragTo(c, p)) /\ Outcome(c, HoverAt(c, p))
    BY <2>1, MovesOfTheMouse
  <2>3. chart' \in {DragTo(c, p), HoverAt(c, p)}
    BY <1>4 DEF MouseMove, Ends
  <2> QED BY <2>1, <2>2, <2>3 DEF Outcome, Remains
<1>5. ASSUME NEW p \in Points, MouseDown(p) PROVE Outcome(chart, chart')
  BY <1>5, MovesOfTheMouse DEF MouseDown, Ends
<1>6. ASSUME NEW p \in Points, NEW down \in BOOLEAN, NavigatorWheel(p, down) PROVE ChartInv(chart')
  <2> DEFINE c == MoveTo(chart, p)
             z == ZoomInNavigator(chart, p.x, down)
             e == UpdateVisibleRange(c.dm, z.start, z.count)
  <2>1. ChartInv(c) /\ c.dm = chart.dm
    BY MovesOfTheMouse, ElsewhereRemains DEF Elsewhere
  <2>2. chart' \in {c, Render([c EXCEPT !.dm = e])}
    BY <1>6, Zenon DEF NavigatorWheel, Ends
  <2>3. ChartInv([c EXCEPT !.dm = e])
    BY <2>1, NewRangesOfData, OtherDataManager DEF ChartInv
  <2> QED BY <2>1, <2>2, <2>3, RenderKeepsData
<1>7. ASSUME NEW p \in Points, NEW down \in BOOLEAN, MainWheel(p, down) PROVE Outcome(chart, chart')
  <2> DEFINE c == MoveTo(chart, p)
             d == HandleMainWheel(c.dm, p.x, RectOf(c.layout, "HeatmapArea"), down)
  <2>1. ChartInv(c) /\ Outcome(chart, c)
    BY MovesOfTheMouse, ElsewhereRemains
  <2>2. chart' \in {c, HandleLayoutChange([c EXCEPT !.dm = d])}
    BY <1>7, Zenon DEF MainWheel, Ends
  <2>3. DataInv(d)
    <3>1. \E s, n : d \in {c.dm, CalculateDataRanges(UpdateVisibleRange(c.dm, s, n))}
      BY DEF HandleMainWheel
    <3> QED BY <2>1, <3>1, NewRangesOfData, RangesOfData DEF ChartInv
  <2>4. ChartInv([c EXCEPT !.dm = d])
    BY <2>1, <2>3, OtherDataManager
  <2> QED BY <2>1, <2>2, <2>4, LayoutChangeRepaints
<1>8. ASSUME MouseUp \/ MouseLeave PROVE Outcome(chart, chart')
  BY <1>8, MovesOfTheMouse DEF MouseUp, MouseLeave, Ends
<1>9. ASSUME NEW m \in Modes, SetRenderMode(m) PROVE Outcome(chart, chart')
  <2>1. ChartInv([chart EXCEPT !.mode = m])
    BY DEF ChartInv, ChartFields
  <2>2. Outcome(chart, HandleLayoutChange([chart EXCEPT !.mode = m]))
    BY <2>1, LayoutChangeRepaints
  <2> QED BY <1>0, <1>9, <2>2 DEF SetRenderMode, Ends
<1>10. ASSUME NEW size \in Resizes, HandleCanvasResize(size) PROVE Outcome(chart, chart')
  <2> DEFINE u(b) == UpdateLayout([chart EXCEPT !.canvas = size, !.shown["Overlay"] = b])
             Left(b) == HandleLayoutChange([u(b) EXCEPT !.dm = InitializeVisibleRange(@, u(b).layout)])
  <2>1. \A b : Outcome(chart, Left(b))
    BY ResizesRepaint
  <2>2. \E b : chart' = Left(b)
    BY <1>10, Zenon DEF HandleCanvasResize, Ends
  <2> HIDE DEF Left
  <2> QED BY <2>1, <2>2
<1>11. ASSUME NEW config \in Configs, UpdateConfig(config) PROVE Outcome(chart, chart')
  <2>1. Elsewhere(chart, [chart EXCEPT !.look = Look(config)])
    BY DEF Elsewhere, ChartInv, ChartFields
  <2> QED BY <1>11, <2>1, ElsewhereRemains DEF UpdateConfig, Ends
<1>12. ASSUME UNCHANGED chartVars PROVE Outcome(chart, chart')
  BY <1>0, <1>12 DEF chartVars
<1>13. Outcome(chart, chart') => ChartInv(chart')
  BY DEF Outcome
<1>14. Outcome(chart, chart') \/ \E p \in Points, down \in BOOLEAN : NavigatorWheel(p, down)
  <2>1. CASE \E p \in Points, down \in BOOLEAN : NavigatorWheel(p, down) \/ MainWheel(p, down)
    BY <1>7, <2>1
  <2> QED BY <1>1, <1>2, <1>3, <1>4, <1>5, <1>8, <1>9, <1>10, <1>11, <1>12, <2>1, Zenon DEF ChartNext, RefuseData, Done
<1>15. ChartInv(chart')
  BY <1>6, <1>13, <1>14, Zenon
<1> QED BY <1>14, <1>15, Zenon

LEMMA ChartBegins == ChartInit => ChartInv(chart)
<1> SUFFICES ASSUME NEW hist \in Histories PROVE ChartInv(NewChart(hist))
  BY DEF ChartInit
<1>1. DOMAIN NewRenderer = ChartFields
  BY DEF NewRenderer, NewUninitialized, ChartFields
<1>2. DataInv(SetInitialData(hist))
  BY CandlesAssumption, FirstData DEF IsList
<1> HIDE DEF NewRenderer
<1> QED BY <1>1, <1>2 DEF NewChart, ChartInv, ChartFields

(* What is kept beside the candles is never out of date: every method that *)
(* moves the range or adds candles drops the extremes and the heat map's   *)
(* index or works them out anew, and the index by time is added to with    *)
(* each candle or rebuilt after a sort (data_manager.rs:120-187).          *)
THEOREM CachesAlwaysMatch == ChartSpec => []CachesMatchTheData
<1>1. ChartInv(chart) => CachesMatchTheData
  BY DEF ChartInv, DataInv, CachesMatchTheData
<1>2. ChartInv(chart) /\ [ChartNext]_chartVars => ChartInv(chart)'
  BY ChartStep
<1> QED BY <1>1, <1>2, ChartBegins, PTL DEF ChartSpec

(* A call after which other candles, another range, mode or canvas are to  *)
(* be seen has painted every layer from what the chart then is, whatever   *)
(* was shown before; but for the wheel over the navigator                  *)
(* (chart_renderer.rs:190-202, kline_process.rs:85-208).                   *)
THEOREM ChangesAreAlwaysPainted == ChartSpec => EveryChangeIsPainted
<1> DEFINE Changes == /\ chart'.ready /\ HasSize(chart')
                      /\ \/ chart'.dm.range # chart.dm.range \/ Length(chart'.dm) # Length(chart.dm)
                         \/ chart'.mode # chart.mode \/ chart'.canvas # chart.canvas
                      /\ ~\E p \in Points, down \in BOOLEAN : NavigatorWheel(p, down)
           Paints == chart'.dirty = {} /\ \A l \in Layers : Shows(chart', l)
<1>1. ChartInv(chart) /\ [ChartNext]_chartVars => [Changes => Paints]_chartVars
  <2> SUFFICES ASSUME ChartInv(chart), [ChartNext]_chartVars, Changes PROVE AllShown(chart')
    BY DEF AllShown
  <2>1. Outcome(chart, chart')
    BY ChartStep
  <2>2. ~Remains(chart, chart')
    BY DEF Remains
  <2>3. Repainted(chart')
    BY <2>1, <2>2 DEF Outcome
  <2> QED BY <2>3, RepaintingShowsAll
<1>2. ChartInv(chart) /\ [ChartNext]_chartVars => ChartInv(chart)'
  BY ChartStep
<1> QED BY <1>1, <1>2, ChartBegins, PTL DEF ChartSpec, EveryChangeIsPainted-----------------------------------------------------------------------------
(* Where the panes lie.                                                    *)

\* How far lengths reach: the sums of the first of them.
LEMMA Reaches ==
  ASSUME NEW N \in Nat, NEW length \in [1 .. N -> Nat]
  PROVE  /\ Reach(length, N) \in [0 .. N -> Nat] /\ Reach(length, N)[0] = 0
         /\ \A k \in 1 .. N : Reach(length, N)[k] = Reach(length, N)[k - 1] + length[k]
<1> DEFINE Sum(f, k) == IF k = 0 THEN 0 ELSE f[k - 1] + length[k]
           reach == CHOOSE f : f = [k \in 0 .. N |-> Sum(f, k)]
           Upto(m) == \E f : f = [k \in 0 .. m |-> Sum(f, k)]
<1>1. Reach(length, N) = reach
  BY DEF Reach
<1>2. Upto(N)
  <2> DEFINE Bad == {m \in Nat : ~Upto(m)}
  <2> SUFFICES ASSUME Bad # {} PROVE FALSE
    OBVIOUS
  <2>1. PICK m \in Bad : \A k \in Bad : ~(<<k, m>> \in OpToRel(<, Nat))
    <3> HIDE DEF Bad
    <3>1. Bad \subseteq Nat
      BY DEF Bad
    <3> QED BY <3>1, WFMin, NatLessThanWellFounded
  <2>2. m \in Nat /\ ~Upto(m)
    OBVIOUS
  <2>3. m # 0
    <3> DEFINE f == [k \in 0 .. 0 |-> 0]
    <3>1. f = [k \in 0 .. 0 |-> Sum(f, k)]
      OBVIOUS
    <3> HIDE DEF f
    <3> QED BY <2>2, <3>1
  <2>4. m - 1 \in Nat /\ Upto(m - 1)
    <3>1. m - 1 \in Nat /\ m - 1 < m
      BY <2>2, <2>3
    <3>2. m - 1 \notin Bad
      BY <2>1, <2>2, <3>1 DEF OpToRel
    <3> QED BY <3>1, <3>2
  <2>5. PICK f : f = [k \in 0 .. (m - 1) |-> Sum(f, k)]
    BY <2>4
  <2> DEFINE g == [k \in 0 .. m |-> IF k = m THEN f[m - 1] + length[m] ELSE f[k]]
  <2>6. \A k \in 0 .. m : g[k] = Sum(g, k)
    <3> TAKE k \in 0 .. m
    <3>1. CASE k = m
      <4>1. g[m - 1] = f[m - 1]
        BY <2>2, <2>4
      <4> QED BY <2>2, <2>3, <3>1, <4>1
    <3>2. CASE k # m
      <4>1. k \in 0 .. (m - 1) /\ g[k] = f[k] /\ (k # 0 => g[k - 1] = f[k - 1])
        BY <2>2, <3>2
      <4>2. f[k] = Sum(f, k)
        BY <2>5, <4>1
      <4> QED BY <4>1, <4>2
    <3> QED BY <3>1, <3>2
  <2>7. g = [k \in 0 .. m |-> Sum(g, k)]
    <3>1. g = [k \in 0 .. m |-> g[k]]
      OBVIOUS
    <3> HIDE DEF g
    <3> QED BY <2>6, <3>1
  <2> HIDE DEF g
  <2> QED BY <2>2, <2>7
<1>3. reach = [k \in 0 .. N |-> Sum(reach, k)]
  BY <1>2
<1> HIDE DEF reach
<1>4. reach[0] = 0 /\ \A k \in 1 .. N : reach[k] = reach[k - 1] + length[k]
  <2>1. \A k \in 0 .. N : reach[k] = Sum(reach, k)
    BY <1>3
  <2>2. 0 \in 0 .. N /\ \A k \in 1 .. N : k \in 0 .. N /\ k # 0
    OBVIOUS
  <2> QED BY <2>1, <2>2
<1>5. \A k \in 0 .. N : reach[k] \in Nat
  <2> DEFINE Bad == {k \in 0 .. N : reach[k] \notin Nat}
  <2> SUFFICES ASSUME Bad # {} PROVE FALSE
    OBVIOUS
  <2>1. PICK k \in Bad : \A j \in Bad : ~(<<j, k>> \in OpToRel(<, Nat))
    <3>1. Bad \subseteq Nat
      OBVIOUS
    <3> HIDE DEF Bad
    <3> QED BY <3>1, WFMin, NatLessThanWellFounded
  <2>2. k \in 1 .. N
    BY <1>4
  <2>3. k - 1 \in 0 .. N /\ k - 1 < k /\ k - 1 \in Nat /\ k \in Nat
    BY <2>2
  <2>4. reach[k - 1] \in Nat
    BY <2>1, <2>3 DEF OpToRel
  <2>5. length[k] \in Nat
    BY <2>2
  <2> QED BY <1>4, <2>2, <2>4, <2>5
<1>6. reach \in [0 .. N -> Nat]
  <2>1. reach = [k \in 0 .. N |-> reach[k]]
    BY <1>3
  <2> QED BY <1>5, <2>1
<1> QED BY <1>1, <1>4, <1>6

IsRect(r) == r \in [x : Int, y : Int, w : Nat, h : Nat]
Constraints == [by : {"fixed", "percent", "fill"}, n : Nat]
AreChildren(children) ==
  /\ Len(children) \in Nat
  /\ \A j \in 1 .. Len(children) : children[j][2] \in Constraints
  /\ \A i, j \in 1 .. Len(children) : children[i][1] = children[j][1] => i = j

\* How long the children of a box are: of a length, a share, or what is left.
LEMMA ExtentsOfChildren ==
  ASSUME NEW children, AreChildren(children), NEW total \in Nat
  PROVE  LET n == Len(children)  extent == Extents(children, total) IN
         /\ n \in Nat /\ extent \in [1 .. n -> Nat]
         /\ \A j \in 1 .. n : children[j][2].by = "percent" => extent[j] = (total * children[j][2].n) \div 100
         /\ n = 1 /\ children[1][2].by = "fill" => extent[1] = total
         /\ n = 2 /\ children[1][2].by = "fixed" /\ children[2][2].by = "fill" =>
              extent[2] = Greatest(total - children[1][2].n, 0)
<1> DEFINE n == Len(children)
           Constraint(j) == children[j][2]
           asked == [j \in 1 .. n |-> CASE Constraint(j).by = "fixed" -> Constraint(j).n
                                        [] Constraint(j).by = "percent" -> (total * Constraint(j).n) \div 100
                                        [] OTHER -> 0]
           filling == {j \in 1 .. n : Constraint(j).by = "fill"}
           left == total - Reach(asked, n)[n]
           extent == [j \in 1 .. n |-> IF j \in filling THEN (IF left > 0 THEN left ELSE 0) \div Cardinality(filling) ELSE asked[j]]
<1>0. extent = Extents(children, total)
  BY DEF Extents
<1>1. n \in Nat
  BY DEF AreChildren
<1>2. \A j \in 1 .. n : Constraint(j) \in Constraints
  BY DEF AreChildren
<1> HIDE DEF n, Constraint
<1>3. ASSUME NEW j \in 1 .. n
      PROVE  /\ asked[j] \in Nat
             /\ Constraint(j).by = "fixed" => asked[j] = Constraint(j).n
             /\ Constraint(j).by = "percent" => asked[j] = (total * Constraint(j).n) \div 100
             /\ Constraint(j).by = "fill" => asked[j] = 0
  <2>1. Constraint(j).n \in Nat /\ Constraint(j).by \in {"fixed", "percent", "fill"}
    BY <1>2 DEF Constraints
  <2>2. total * Constraint(j).n \in Nat
    BY <2>1
  <2>3. (total * Constraint(j).n) \div 100 \in Nat
    BY <2>2
  <2> QED BY <2>1, <2>3
<1>4. asked \in [1 .. n -> Nat]
  <2>1. asked = [j \in 1 .. n |-> asked[j]]
    OBVIOUS
  <2> HIDE DEF asked
  <2> QED BY <1>3, <2>1
<1> HIDE DEF asked
<1>5. Reach(asked, n)[n] \in Nat /\ left \in Int
  BY <1>1, <1>4, Reaches
<1>6. IsFiniteSet(filling) /\ Cardinality(filling) \in Nat /\ (filling # {} => Cardinality(filling) # 0)
  <2>1. 1 \in Int /\ n \in Int
    BY <1>1
  <2>2. IsFiniteSet(1 .. n)
    BY <2>1, FS_Interval
  <2>3. filling \subseteq 1 .. n
    OBVIOUS
  <2> HIDE DEF filling
  <2> QED BY <2>2, <2>3, FS_Subset, FS_CardinalityType, FS_EmptySet
<1> DEFINE rest == IF left > 0 THEN left ELSE 0
<1>7. rest \in Nat
  BY <1>5
<1>8. \A a \in Nat, b \in Nat : b # 0 => a \div b \in Nat
  OBVIOUS
<1>9. extent \in [1 .. n -> Nat]
  <2>1. ASSUME NEW j \in 1 .. n PROVE extent[j] \in Nat
    <3>1. CASE j \in filling
      <4>1. Cardinality(filling) # 0
        <5> HIDE DEF filling
        <5> QED BY <1>6, <3>1
      <4>2. extent[j] = rest \div Cardinality(filling)
        BY <3>1
      <4> QED BY <1>6, <1>7, <1>8, <4>1, <4>2
    <3>2. CASE j \notin filling
      BY <1>3, <3>2
    <3> QED BY <3>1, <3>2
  <2>2. extent = [j \in 1 .. n |-> extent[j]]
    OBVIOUS
  <2> HIDE DEF extent
  <2> QED BY <2>1, <2>2
<1>10. ASSUME NEW j \in 1 .. n, Constraint(j).by = "percent" PROVE extent[j] = (total * Constraint(j).n) \div 100
  BY <1>3, <1>10
<1>11. ASSUME n = 1, Constraint(1).by = "fill" PROVE extent[1] = total
  <2>1. filling = {1}
    BY <1>11
  <2>2. Cardinality(filling) = 1
    BY <2>1, FS_Singleton
  <2>3. Reach(asked, n)[1] = 0
    <3>1. 1 \in 1 .. n /\ asked[1] = 0
      BY <1>3, <1>11
    <3>2. \A k \in 1 .. n : Reach(asked, n)[k] = Reach(asked, n)[k - 1] + asked[k]
      BY <1>1, <1>4, Reaches
    <3>3. Reach(asked, n)[0] = 0
      BY <1>1, <1>4, Reaches
    <3> QED BY <3>1, <3>2, <3>3
  <2>4. rest = total
    BY <1>11, <2>3
  <2>5. extent[1] = rest \div Cardinality(filling)
    BY <1>11, <2>1
  <2>6. \A a \in Nat : a \div 1 = a
    OBVIOUS
  <2> HIDE DEF extent, rest, filling
  <2> QED BY <2>2, <2>4, <2>5, <2>6
<1>12. ASSUME n = 2, Constraint(1).by = "fixed", Constraint(2).by = "fill"
       PROVE  extent[2] = Greatest(total - Constraint(1).n, 0)
  <2>1. filling = {2}
    BY <1>12
  <2>2. Cardinality(filling) = 1
    BY <2>1, FS_Singleton
  <2>3. Reach(asked, n)[2] = Constraint(1).n /\ Constraint(1).n \in Nat
    <3>1. 1 \in 1 .. n /\ 2 \in 1 .. n /\ asked[1] = Constraint(1).n /\ asked[2] = 0 /\ Constraint(1).n \in Nat
      BY <1>2, <1>3, <1>12 DEF Constraints
    <3>2. Reach(asked, n)[1] = Reach(asked, n)[0] + asked[1] /\ Reach(asked, n)[2] = Reach(asked, n)[1] + asked[2]
      <4>1. \A k \in 1 .. n : Reach(asked, n)[k] = Reach(asked, n)[k - 1] + asked[k]
        BY <1>1, <1>4, Reaches
      <4> QED BY <3>1, <4>1
    <3>3. Reach(asked, n)[0] = 0
      BY <1>1, <1>4, Reaches
    <3> QED BY <3>1, <3>2, <3>3
  <2>4. rest = Greatest(total - Constraint(1).n, 0)
    BY <1>12, <2>3 DEF Greatest
  <2>5. extent[2] = rest \div Cardinality(filling)
    BY <1>12, <2>1
  <2>6. \A a \in Nat : a \div 1 = a
    OBVIOUS
  <2> HIDE DEF extent, rest, filling
  <2> QED BY <1>7, <2>2, <2>4, <2>5, <2>6 DEF rest
<1> HIDE DEF extent
<1> QED BY <1>0, <1>1, <1>9, <1>10, <1>11, <1>12 DEF n, Constraint

\* The children of a box have rectangles, whose widths are the box's where
\* they lie one below the other and the extents where they lie side by side.
LEMMA RectsOfChildren ==
  ASSUME NEW box, AreChildren(box.children), box.down \in BOOLEAN, NEW bounds, IsRect(bounds)
  PROVE  LET n == Len(box.children)
             rects == ComputeChildren(box, bounds)
         IN /\ DOMAIN rects = {box.children[j][1] : j \in 1 .. n}
            /\ \A j \in 1 .. n :
                 LET r == rects[box.children[j][1]] IN
                 IsRect(r) /\ r.w = IF box.down THEN bounds.w ELSE Extents(box.children, bounds.w)[j]
<1> DEFINE n == Len(box.children)
           total == IF box.down THEN bounds.h ELSE bounds.w
           extent == Extents(box.children, total)
           offset == Reach(extent, n)
           At0(j) == IF box.down THEN Rect(bounds.x, bounds.y + offset[j - 1], bounds.w, extent[j])
                     ELSE Rect(bounds.x + offset[j - 1], bounds.y, extent[j], bounds.h)
           rects == [id \in {box.children[j][1] : j \in 1 .. n} |-> At0(CHOOSE j \in 1 .. n : box.children[j][1] = id)]
<1>0. rects = ComputeChildren(box, bounds)
  BY Zenon DEF ComputeChildren
<1>1. bounds.x \in Int /\ bounds.y \in Int /\ bounds.w \in Nat /\ bounds.h \in Nat
  BY DEF IsRect
<1>2. n \in Nat /\ extent \in [1 .. n -> Nat]
  BY <1>1, ExtentsOfChildren
<1>3. offset \in [0 .. n -> Nat]
  BY <1>2, Reaches
<1>4. \A i, j \in 1 .. n : box.children[i][1] = box.children[j][1] => i = j
  BY DEF AreChildren
<1>5. ASSUME NEW j \in 1 .. n
      PROVE  LET r == rects[box.children[j][1]] IN
             IsRect(r) /\ r.w = IF box.down THEN bounds.w ELSE Extents(box.children, bounds.w)[j]
  <2>1. rects[box.children[j][1]] = At0(CHOOSE i \in 1 .. n : box.children[i][1] = box.children[j][1])
    OBVIOUS
  <2>2. (CHOOSE i \in 1 .. n : box.children[i][1] = box.children[j][1]) = j
    <3> HIDE DEF n
    <3> QED BY <1>4
  <2>3. rects[box.children[j][1]] = At0(j)
    BY <2>1, <2>2
  <2>4. offset[j - 1] \in Nat /\ extent[j] \in Nat
    <3>1. j - 1 \in 0 .. n
      BY <1>2
    <3> HIDE DEF offset, extent
    <3> QED BY <1>2, <1>3, <3>1
  <2>5. IsRect(At0(j)) /\ At0(j).w = IF box.down THEN bounds.w ELSE extent[j]
    <3> HIDE DEF offset, extent
    <3> QED BY <1>1, <2>4 DEF Rect, IsRect
  <2>6. ~box.down => total = bounds.w
    OBVIOUS
  <2> HIDE DEF At0, rects
  <2> QED BY <2>3, <2>5, <2>6
<1>6. DOMAIN rects = {box.children[j][1] : j \in 1 .. n}
  OBVIOUS
<1> HIDE DEF rects
<1> QED BY <1>0, <1>5, <1>6

ArePanes(panes) == \A id \in DOMAIN panes : IsRect(panes[id])

\* A box's children come to the panes there are.
Joined(panes, box, more) ==
  LET n == Len(box.children) IN
  /\ ArePanes(more)
  /\ DOMAIN more = DOMAIN panes \union {box.children[j][1] : j \in 1 .. n}
  /\ \A id \in DOMAIN panes : more[id] = panes[id]
  /\ \A j \in 1 .. n : box.children[j][1] \notin DOMAIN panes =>
       more[box.children[j][1]].w =
         IF box.down THEN panes[box.id].w ELSE Extents(box.children, panes[box.id].w)[j]

LEMMA PanesWithChildren ==
  ASSUME NEW panes, ArePanes(panes), NEW box, box.id \in DOMAIN panes,
         AreChildren(box.children), box.down \in BOOLEAN
  PROVE  Joined(panes, box, WithChildren(panes, box))
<1> DEFINE n == Len(box.children)
           bounds == panes[box.id]
           children == ComputeChildren(box, bounds)
           more == [id \in DOMAIN panes \union DOMAIN children |-> IF id \in DOMAIN panes THEN panes[id] ELSE children[id]]
<1>0. more = WithChildren(panes, box)
  BY Zenon DEF WithChildren
<1>1. IsRect(bounds)
  BY DEF ArePanes
<1>2. /\ DOMAIN children = {box.children[j][1] : j \in 1 .. n}
      /\ \A j \in 1 .. n : /\ IsRect(children[box.children[j][1]])
                           /\ children[box.children[j][1]].w = IF box.down THEN bounds.w ELSE Extents(box.children, bounds.w)[j]
  BY <1>1, RectsOfChildren
<1> HIDE DEF children, bounds, n
<1>3. /\ DOMAIN more = DOMAIN panes \union {box.children[j][1] : j \in 1 .. n}
      /\ \A id \in DOMAIN panes : more[id] = panes[id]
      /\ \A id \in DOMAIN children \ DOMAIN panes : more[id] = children[id]
  BY <1>2
<1> HIDE DEF more
<1>4. ArePanes(more)
  BY <1>2, <1>3 DEF ArePanes
<1>5. \A j \in 1 .. n : box.children[j][1] \notin DOMAIN panes =>
        more[box.children[j][1]].w = IF box.down THEN bounds.w ELSE Extents(box.children, bounds.w)[j]
  BY <1>2, <1>3
<1> QED BY <1>0, <1>3, <1>4, <1>5 DEF n, bounds, Joined

\* The panes that there are after each box of a template.
Grows(template, bounds, after) ==
  /\ Calculate(template, bounds) = after[Len(template)] /\ after[0] = [id \in {"Root"} |-> bounds]
  /\ \A k \in 1 .. Len(template) : after[k] = WithChildren(after[k - 1], template[k])

LEMMA BoxByBox ==
  ASSUME NEW template, Len(template) \in Nat, NEW bounds
  PROVE  \E after : Grows(template, bounds, after)
<1> DEFINE N == Len(template)
           Made(f, k) == IF k = 0 THEN [id \in {"Root"} |-> bounds] ELSE WithChildren(f[k - 1], template[k])
           after == CHOOSE f : f = [k \in 0 .. N |-> Made(f, k)]
           Upto(m) == \E f : f = [k \in 0 .. m |-> Made(f, k)]
<1>1. Calculate(template, bounds) = after[N]
  BY Zenon DEF Calculate
<1> HIDE DEF N
<1>0. N \in Nat
  BY DEF N
<1>2. Upto(N)
  <2> DEFINE Bad == {m \in Nat : ~Upto(m)}
  <2> SUFFICES ASSUME Bad # {} PROVE FALSE
    BY <1>0
  <2>1. PICK m \in Bad : \A k \in Bad : ~(<<k, m>> \in OpToRel(<, Nat))
    <3> HIDE DEF Bad
    <3>1. Bad \subseteq Nat
      BY DEF Bad
    <3> QED BY <3>1, WFMin, NatLessThanWellFounded
  <2>2. m \in Nat /\ ~Upto(m)
    OBVIOUS
  <2>3. m # 0
    <3> DEFINE f == [k \in 0 .. 0 |-> [id \in {"Root"} |-> bounds]]
    <3>1. f = [k \in 0 .. 0 |-> Made(f, k)]
      OBVIOUS
    <3> HIDE DEF f
    <3> QED BY <2>2, <3>1
  <2>4. m - 1 \in Nat /\ Upto(m - 1)
    <3>1. m - 1 \in Nat /\ m - 1 < m
      BY <2>2, <2>3
    <3>2. m - 1 \notin Bad
      BY <2>1, <2>2, <3>1 DEF OpToRel
    <3> QED BY <3>1, <3>2
  <2>5. PICK f : f = [k \in 0 .. (m - 1) |-> Made(f, k)]
    BY <2>4
  <2> DEFINE g == [k \in 0 .. m |-> IF k = m THEN WithChildren(f[m - 1], template[m]) ELSE f[k]]
  <2>6. \A k \in 0 .. m : g[k] = Made(g, k)
    <3> TAKE k \in 0 .. m
    <3>1. CASE k = m
      <4>1. g[m - 1] = f[m - 1]
        BY <2>2, <2>4
      <4> QED BY <2>2, <2>3, <3>1, <4>1
    <3>2. CASE k # m
      <4>1. k \in 0 .. (m - 1) /\ g[k] = f[k] /\ (k # 0 => g[k - 1] = f[k - 1])
        BY <2>2, <3>2
      <4>2. f[k] = Made(f, k)
        BY <2>5, <4>1
      <4> QED BY <4>1, <4>2
    <3> QED BY <3>1, <3>2
  <2>7. g = [k \in 0 .. m |-> Made(g, k)]
    <3>1. g = [k \in 0 .. m |-> g[k]]
      OBVIOUS
    <3> HIDE DEF g
    <3> QED BY <2>6, <3>1
  <2> HIDE DEF g
  <2> QED BY <2>2, <2>7
<1>3. after = [k \in 0 .. N |-> Made(after, k)]
  BY <1>2
<1> HIDE DEF after
<1>4. after[0] = [id \in {"Root"} |-> bounds] /\ \A k \in 1 .. N : after[k] = WithChildren(after[k - 1], template[k])
  <2>1. \A k \in 0 .. N : after[k] = Made(after, k)
    BY <1>3
  <2>2. 0 \in 0 .. N /\ \A k \in 1 .. N : k \in 0 .. N /\ k # 0
    BY <1>0
  <2> QED BY <2>1, <2>2
<1> QED BY <1>1, <1>4 DEF N, Grows

Two(a, c, b, d) == << <<a, c>>, <<b, d>> >>
Three(a, c, b, d, e, f) == << <<a, c>>, <<b, d>>, <<e, f>> >>

LEMMA OneChild ==
  ASSUME NEW a, NEW c \in Constraints
  PROVE  AreChildren(<< <<a, c>> >>) /\ Len(<< <<a, c>> >>) = 1
<1> DEFINE s == << <<a, c>> >>
<1>1. Len(s) = 1 /\ s[1] = <<a, c>>
  OBVIOUS
<1> HIDE DEF s
<1>2. s[1][2] = c /\ \A k \in 1 .. 1 : k = 1
  BY <1>1
<1> QED BY <1>1, <1>2 DEF AreChildren, s

LEMMA TwoChildren ==
  ASSUME NEW a, NEW b, a # b, NEW c \in Constraints, NEW d \in Constraints
  PROVE  AreChildren(Two(a, c, b, d)) /\ Len(Two(a, c, b, d)) = 2
<1> DEFINE s == Two(a, c, b, d)
<1>1. Len(s) = 2 /\ s[1] = <<a, c>> /\ s[2] = <<b, d>>
  BY DEF Two
<1> HIDE DEF s
<1>2. s[1][1] = a /\ s[2][1] = b /\ s[1][2] = c /\ s[2][2] = d /\ \A k \in 1 .. 2 : k = 1 \/ k = 2
  BY <1>1
<1> QED BY <1>1, <1>2 DEF AreChildren, s

LEMMA ThreeChildren ==
  ASSUME NEW a, NEW b, NEW e, a # b, b # e, a # e,
         NEW c \in Constraints, NEW d \in Constraints, NEW f \in Constraints
  PROVE  AreChildren(Three(a, c, b, d, e, f)) /\ Len(Three(a, c, b, d, e, f)) = 3
<1> DEFINE s == Three(a, c, b, d, e, f)
<1>1. Len(s) = 3 /\ s[1] = <<a, c>> /\ s[2] = <<b, d>> /\ s[3] = <<e, f>>
  BY DEF Three
<1> HIDE DEF s
<1>2. s[1][1] = a /\ s[2][1] = b /\ s[3][1] = e /\ s[1][2] = c /\ s[2][2] = d /\ s[3][2] = f /\ \A k \in 1 .. 3 : k = 1 \/ k = 2 \/ k = 3
  BY <1>1
<1> QED BY <1>1, <1>2 DEF AreChildren, s

\* From p to q these panes came.
Came(p, q, ids) == ArePanes(q) /\ DOMAIN q = DOMAIN p \union ids /\ \A id \in DOMAIN p : q[id] = p[id]

\* A box of one, two or three children comes to the panes.
LEMMA JoinOne ==
  ASSUME NEW p, NEW b, NEW q, Joined(p, b, q), NEW x, NEW c, b.children = << <<x, c>> >>, x \notin DOMAIN p
  PROVE  /\ Came(p, q, {x})
         /\ q[x].w = IF b.down THEN p[b.id].w ELSE Extents(b.children, p[b.id].w)[1]
<1>1. Len(b.children) = 1 /\ b.children[1] = <<x, c>>
  OBVIOUS
<1>2. b.children[1][1] = x
  BY <1>1
<1>3. {b.children[j][1] : j \in 1 .. 1} = {x} /\ 1 \in 1 .. 1
  <2>1. \A j \in 1 .. 1 : j = 1
    OBVIOUS
  <2> QED BY <1>2, <2>1
<1> QED BY <1>1, <1>2, <1>3 DEF Joined, Came

LEMMA JoinTwo ==
  ASSUME NEW p, NEW b, NEW q, Joined(p, b, q), NEW x, NEW c, NEW y, NEW d,
         b.children = Two(x, c, y, d), x \notin DOMAIN p, y \notin DOMAIN p
  PROVE  /\ Came(p, q, {x, y})
         /\ q[x].w = IF b.down THEN p[b.id].w ELSE Extents(b.children, p[b.id].w)[1]
         /\ q[y].w = IF b.down THEN p[b.id].w ELSE Extents(b.children, p[b.id].w)[2]
<1>1. Len(b.children) = 2 /\ b.children[1] = <<x, c>> /\ b.children[2] = <<y, d>>
  BY DEF Two
<1>2. b.children[1][1] = x /\ b.children[2][1] = y
  BY <1>1
<1>3. {b.children[j][1] : j \in 1 .. 2} = {x, y} /\ 1 \in 1 .. 2 /\ 2 \in 1 .. 2
  <2>1. (\A j \in 1 .. 2 : j = 1 \/ j = 2) /\ 1 \in 1 .. 2 /\ 2 \in 1 .. 2
    OBVIOUS
  <2> QED BY <1>2, <2>1
<1> QED BY <1>1, <1>2, <1>3 DEF Joined, Came

LEMMA JoinThree ==
  ASSUME NEW p, NEW b, NEW q, Joined(p, b, q), NEW x, NEW c, NEW y, NEW d, NEW z, NEW e,
         b.children = Three(x, c, y, d, z, e), x \notin DOMAIN p, y \notin DOMAIN p, z \notin DOMAIN p, b.down
  PROVE  /\ Came(p, q, {x, y, z})
         /\ q[x].w = p[b.id].w /\ q[z].w = p[b.id].w
<1>1. Len(b.children) = 3 /\ b.children[1] = <<x, c>> /\ b.children[2] = <<y, d>> /\ b.children[3] = <<z, e>>
  BY DEF Three
<1>2. b.children[1][1] = x /\ b.children[2][1] = y /\ b.children[3][1] = z
  BY <1>1
<1>3. {b.children[j][1] : j \in 1 .. 3} = {x, y, z} /\ 1 \in 1 .. 3 /\ 3 \in 1 .. 3
  <2>1. (\A j \in 1 .. 3 : j = 1 \/ j = 2 \/ j = 3) /\ 1 \in 1 .. 3 /\ 2 \in 1 .. 3 /\ 3 \in 1 .. 3
    OBVIOUS
  <2> QED BY <1>2, <2>1
<1> QED BY <1>1, <1>2, <1>3 DEF Joined, Came

\* The widths of the template's boxes, from the root to the navigator.
NavigatorWidth(s) == (Greatest(s.w - AxisWidth, 0) * 80) \div 100

LEMMA PanesOfTheTemplate ==
  ASSUME NEW m \in Modes, NEW s \in Sizes
  PROVE  /\ IsRect(Panes[m][s]["HeatmapArea"]) /\ IsRect(Panes[m][s]["NavigatorContainer"])
         /\ Panes[m][s]["NavigatorContainer"].w = NavigatorWidth(s)
<1> DEFINE t == CreateLayoutTemplate(m)
           bounds == Rect(0, 0, s.w, s.h)
           main == IF m = "kmap" THEN 80 ELSE 90
<1> USE DEF Fixed, Percent, Fill, VBox, HBox
<1>0. s.w \in Nat /\ s.h \in Nat /\ IsRect(bounds) /\ AxisWidth \in Nat
  BY LayoutAssumption DEF Rect, IsRect
<1>1. Panes[m][s] = Calculate(t, bounds)
  <2> HIDE DEF t, bounds
  <2> QED BY DEF Panes, t, bounds
<1>2. Len(t) = 9
  BY DEF CreateLayoutTemplate
<1>3. \A n \in Nat : Fixed(n) \in Constraints /\ Percent(n) \in Constraints /\ Fill \in Constraints
  BY DEF Constraints
<1>4. {HeaderHeight, SpacerHeight, AxisWidth, TimeAxisHeight, NavigatorHeight} \subseteq Nat /\ main \in Nat /\ 100 - main \in Nat
  BY LayoutAssumption
<1> DEFINE Box(k, id, down, children) == t[k].id = id /\ t[k].down = down /\ t[k].children = children
<1>5. /\ Box(1, "Root", TRUE, Three("Header", Fixed(HeaderHeight), "HeaderSpacer", Fixed(SpacerHeight), "MainContent", Fill))
      /\ Box(2, "MainContent", FALSE, << <<"ChartArea", Fill>> >>)
      /\ Box(3, "ChartArea", FALSE, Two("YAxis", Fixed(AxisWidth), "DrawingArea", Fill))
      /\ Box(4, "DrawingArea", TRUE, Three("ChartsContainer", Fill, "TimeAxis", Fixed(TimeAxisHeight), "NavigatorWrapper", Fixed(NavigatorHeight)))
      /\ Box(5, "ChartsContainer", TRUE, Two("HeatmapWithOrderBook", Percent(main), "VolumeChartWrapper", Percent(100 - main)))
      /\ Box(6, "HeatmapWithOrderBook", FALSE, Two("HeatmapArea", Percent(80), "OrderBook", Percent(20)))
      /\ Box(7, "VolumeChartWrapper", FALSE, Two("VolumeChart", Percent(80), "VolumeChartSpacer", Percent(20)))
      /\ Box(8, "NavigatorWrapper", FALSE, << <<"NavigatorMainWrapper", Fill>> >>)
      /\ Box(9, "NavigatorMainWrapper", FALSE, Two("NavigatorContainer", Percent(80), "NavigatorRightSpacer", Percent(20)))
  BY DEF CreateLayoutTemplate, Two, Three
<1> HIDE DEF t, Fixed, Percent, Fill, VBox, HBox, main, bounds
<1>6. /\ \A k \in 1 .. 9 : AreChildren(t[k].children) /\ t[k].down \in BOOLEAN
      /\ Len(t[1].children) = 3 /\ Len(t[2].children) = 1 /\ Len(t[3].children) = 2 /\ Len(t[4].children) = 3
      /\ Len(t[5].children) = 2 /\ Len(t[6].children) = 2 /\ Len(t[7].children) = 2 /\ Len(t[8].children) = 1
      /\ Len(t[9].children) = 2
  <2>1. \A k \in 1 .. 9 : k \in {1, 2, 3, 4, 5, 6, 7, 8, 9}
    OBVIOUS
  <2>2. AreChildren(t[1].children) /\ Len(t[1].children) = 3
    BY <1>3, <1>4, <1>5, ThreeChildren
  <2>3. AreChildren(t[2].children) /\ Len(t[2].children) = 1
    BY <1>3, <1>4, <1>5, OneChild
  <2>4. AreChildren(t[3].children) /\ Len(t[3].children) = 2
    BY <1>3, <1>4, <1>5, TwoChildren
  <2>5. AreChildren(t[4].children) /\ Len(t[4].children) = 3
    BY <1>3, <1>4, <1>5, ThreeChildren
  <2>6. AreChildren(t[5].children) /\ Len(t[5].children) = 2
    BY <1>3, <1>4, <1>5, TwoChildren
  <2>7. AreChildren(t[6].children) /\ Len(t[6].children) = 2
    BY <1>3, <1>4, <1>5, TwoChildren
  <2>8. AreChildren(t[7].children) /\ Len(t[7].children) = 2
    BY <1>3, <1>4, <1>5, TwoChildren
  <2>9. AreChildren(t[8].children) /\ Len(t[8].children) = 1
    BY <1>3, <1>4, <1>5, OneChild
  <2>10. AreChildren(t[9].children) /\ Len(t[9].children) = 2
    BY <1>3, <1>4, <1>5, TwoChildren
  <2>11. \A k \in 1 .. 9 : t[k].down \in BOOLEAN
    BY <1>5, <2>1
  <2> QED BY <2>1, <2>2, <2>3, <2>4, <2>5, <2>6, <2>7, <2>8, <2>9, <2>10, <2>11
<1>7. PICK after : Grows(t, bounds, after)
  BY <1>2, BoxByBox
<1>8. Panes[m][s] = after[9] /\ after[0] = [id \in {"Root"} |-> bounds]
      /\ \A k \in 1 .. 9 : after[k] = WithChildren(after[k - 1], t[k])
  BY <1>1, <1>2, <1>7 DEF Grows
\* Box k finds its place, and its children theirs.
<1>9. ASSUME NEW k \in 1 .. 9, ArePanes(after[k - 1]), t[k].id \in DOMAIN after[k - 1]
      PROVE  Joined(after[k - 1], t[k], after[k]) /\ IsRect(after[k - 1][t[k].id])
  <2>1. after[k] = WithChildren(after[k - 1], t[k])
    BY <1>8, <1>9
  <2>2. AreChildren(t[k].children) /\ t[k].down \in BOOLEAN
    BY <1>6, <1>9
  <2>3. IsRect(after[k - 1][t[k].id])
    BY <1>9 DEF ArePanes
  <2> QED BY <1>9, <2>1, <2>2, <2>3, PanesWithChildren
<1>10. ArePanes(after[0]) /\ DOMAIN after[0] = {"Root"} /\ after[0]["Root"].w = s.w
  BY <1>0, <1>8 DEF ArePanes, bounds, Rect
<1>11. ArePanes(after[1]) /\ after[1]["MainContent"].w = s.w
       /\ DOMAIN after[1] = {"Root", "Header", "HeaderSpacer", "MainContent"}
  <2>1. Joined(after[0], t[1], after[1]) /\ IsRect(after[0][t[1].id])
    <3>1. 1 \in 1 .. 9 /\ 1 - 1 = 0 /\ t[1].id \in DOMAIN after[0]
      BY <1>5, <1>10
    <3> QED BY <1>9, <1>10, <3>1
  <2>3. PICK c, d, e : t[1].children = Three("Header", c, "HeaderSpacer", d, "MainContent", e)
    BY <1>5
  <2>4. "Header" \notin DOMAIN after[0] /\ "HeaderSpacer" \notin DOMAIN after[0] /\ "MainContent" \notin DOMAIN after[0]
    BY <1>10
  <2>5. /\ Came(after[0], after[1], {"Header", "HeaderSpacer", "MainContent"})
        /\ after[1]["MainContent"].w = after[0][t[1].id].w
    <3>1. t[1].down = TRUE
      BY <1>5
    <3>2. Joined(after[0], t[1], after[1]) /\ t[1].down
      BY <2>1, <3>1
    <3> QED BY <2>3, <2>4, <3>2, JoinThree, SMTT(30)
  <2> QED BY <1>5, <1>10, <2>5 DEF Came
<1>12. ArePanes(after[2]) /\ after[2]["ChartArea"].w = s.w
       /\ DOMAIN after[2] = {"Root", "Header", "HeaderSpacer", "MainContent", "ChartArea"}
  <2>1. Joined(after[1], t[2], after[2]) /\ IsRect(after[1][t[2].id])
    <3>1. 2 \in 1 .. 9 /\ 2 - 1 = 1 /\ t[2].id \in DOMAIN after[1]
      BY <1>5, <1>11
    <3> QED BY <1>9, <1>11, <3>1
  <2>2. Extents(t[2].children, after[1]["MainContent"].w)[1] = s.w
    <3>1. AreChildren(t[2].children) /\ after[1]["MainContent"].w \in Nat
      BY <1>5, <1>6, <2>1 DEF IsRect
    <3>2. t[2].children[1][2] = Fill /\ Fill.by = "fill"
      BY <1>5, <1>6 DEF Fixed, Percent, Fill, Two
    <3> QED BY <1>6, <1>11, <3>1, <3>2, ExtentsOfChildren DEF NavigatorWidth
  <2>3. PICK c : t[2].children = << <<"ChartArea", c>> >>
    BY <1>5
  <2>4. "ChartArea" \notin DOMAIN after[1]
    BY <1>11
  <2>5. /\ Came(after[1], after[2], {"ChartArea"})
        /\ after[2]["ChartArea"].w = Extents(t[2].children, after[1][t[2].id].w)[1]
    <3>1. t[2].down = FALSE
      BY <1>5
    <3> QED BY <2>1, <2>3, <2>4, <3>1, JoinOne
  <2> QED BY <1>5, <1>11, <2>5, <2>2 DEF Came
<1>13. ArePanes(after[3]) /\ after[3]["DrawingArea"].w = Greatest(s.w - AxisWidth, 0)
       /\ DOMAIN after[3] = {"Root", "Header", "HeaderSpacer", "MainContent", "ChartArea", "YAxis", "DrawingArea"}
  <2>1. Joined(after[2], t[3], after[3]) /\ IsRect(after[2][t[3].id])
    <3>1. 3 \in 1 .. 9 /\ 3 - 1 = 2 /\ t[3].id \in DOMAIN after[2]
      BY <1>5, <1>12
    <3> QED BY <1>9, <1>12, <3>1
  <2>2. Extents(t[3].children, after[2]["ChartArea"].w)[2] = Greatest(s.w - AxisWidth, 0)
    <3>1. AreChildren(t[3].children) /\ after[2]["ChartArea"].w \in Nat
      BY <1>5, <1>6, <2>1 DEF IsRect
    <3>2. t[3].children[1][2] = Fixed(AxisWidth) /\ t[3].children[2][2] = Fill /\ Fixed(AxisWidth).by = "fixed" /\ Fixed(AxisWidth).n = AxisWidth /\ Fill.by = "fill"
      BY <1>5, <1>6 DEF Fixed, Percent, Fill, Two
    <3> DEFINE w == after[2]["ChartArea"].w  list == t[3].children
    <3>3. AreChildren(list) /\ w \in Nat /\ Len(list) = 2 /\ list[1][2].by = "fixed" /\ list[2][2].by = "fill" /\ list[1][2].n = AxisWidth
      BY <1>6, <3>1, <3>2
    <3> HIDE DEF w, list
    <3>4. Extents(list, w)[2] = Greatest(w - list[1][2].n, 0)
      BY <3>3, ExtentsOfChildren
    <3> QED BY <1>12, <3>3, <3>4 DEF w, list
  <2>3. PICK c, d : t[3].children = Two("YAxis", c, "DrawingArea", d)
    BY <1>5
  <2>4. "YAxis" \notin DOMAIN after[2] /\ "DrawingArea" \notin DOMAIN after[2]
    BY <1>12
  <2>5. /\ Came(after[2], after[3], {"YAxis", "DrawingArea"})
        /\ after[3]["DrawingArea"].w = Extents(t[3].children, after[2][t[3].id].w)[2]
    <3>1. t[3].down = FALSE
      BY <1>5
    <3> QED BY <2>1, <2>3, <2>4, <3>1, JoinTwo
  <2> QED BY <1>5, <1>12, <2>5, <2>2 DEF Came
<1>14. ArePanes(after[4]) /\ after[4]["NavigatorWrapper"].w = Greatest(s.w - AxisWidth, 0)
       /\ DOMAIN after[4] = {"Root", "Header", "HeaderSpacer", "MainContent", "ChartArea", "YAxis", "DrawingArea", "ChartsContainer", "TimeAxis", "NavigatorWrapper"}
  <2>1. Joined(after[3], t[4], after[4]) /\ IsRect(after[3][t[4].id])
    <3>1. 4 \in 1 .. 9 /\ 4 - 1 = 3 /\ t[4].id \in DOMAIN after[3]
      BY <1>5, <1>13
    <3> QED BY <1>9, <1>13, <3>1
  <2>3. PICK c, d, e : t[4].children = Three("ChartsContainer", c, "TimeAxis", d, "NavigatorWrapper", e)
    BY <1>5
  <2>4. "ChartsContainer" \notin DOMAIN after[3] /\ "TimeAxis" \notin DOMAIN after[3] /\ "NavigatorWrapper" \notin DOMAIN after[3]
    BY <1>13
  <2>5. /\ Came(after[3], after[4], {"ChartsContainer", "TimeAxis", "NavigatorWrapper"})
        /\ after[4]["NavigatorWrapper"].w = after[3][t[4].id].w
    <3>1. t[4].down = TRUE
      BY <1>5
    <3> QED BY <2>1, <2>3, <2>4, <3>1, JoinThree
  <2> QED BY <1>5, <1>13, <2>5 DEF Came
<1>15. ArePanes(after[5]) /\ after[5]["NavigatorWrapper"].w = Greatest(s.w - AxisWidth, 0)
       /\ DOMAIN after[5] = {"Root", "Header", "HeaderSpacer", "MainContent", "ChartArea", "YAxis", "DrawingArea", "ChartsContainer", "TimeAxis", "NavigatorWrapper", "HeatmapWithOrderBook", "VolumeChartWrapper"}
  <2>1. Joined(after[4], t[5], after[5]) /\ IsRect(after[4][t[5].id])
    <3>1. 5 \in 1 .. 9 /\ 5 - 1 = 4 /\ t[5].id \in DOMAIN after[4]
      BY <1>5, <1>14
    <3> QED BY <1>9, <1>14, <3>1
  <2>3. PICK c, d : t[5].children = Two("HeatmapWithOrderBook", c, "VolumeChartWrapper", d)
    BY <1>5
  <2>4. "HeatmapWithOrderBook" \notin DOMAIN after[4] /\ "VolumeChartWrapper" \notin DOMAIN after[4]
    BY <1>14
  <2>5. /\ Came(after[4], after[5], {"HeatmapWithOrderBook", "VolumeChartWrapper"})
    <3>1. t[5].down = TRUE
      BY <1>5
    <3> QED BY <2>1, <2>3, <2>4, <3>1, JoinTwo
  <2> QED BY <1>5, <1>14, <2>5 DEF Came
<1>16. ArePanes(after[6]) /\ after[6]["NavigatorWrapper"].w = Greatest(s.w - AxisWidth, 0)
       /\ DOMAIN after[6] = {"Root", "Header", "HeaderSpacer", "MainContent", "ChartArea", "YAxis", "DrawingArea", "ChartsContainer", "TimeAxis", "NavigatorWrapper", "HeatmapWithOrderBook", "VolumeChartWrapper", "HeatmapArea", "OrderBook"}
  <2>1. Joined(after[5], t[6], after[6]) /\ IsRect(after[5][t[6].id])
    <3>1. 6 \in 1 .. 9 /\ 6 - 1 = 5 /\ t[6].id \in DOMAIN after[5]
      BY <1>5, <1>15
    <3> QED BY <1>9, <1>15, <3>1
  <2>3. PICK c, d : t[6].children = Two("HeatmapArea", c, "OrderBook", d)
    BY <1>5
  <2>4. "HeatmapArea" \notin DOMAIN after[5] /\ "OrderBook" \notin DOMAIN after[5]
    BY <1>15
  <2>5. /\ Came(after[5], after[6], {"HeatmapArea", "OrderBook"})
    <3>1. t[6].down = FALSE
      BY <1>5
    <3> QED BY <2>1, <2>3, <2>4, <3>1, JoinTwo
  <2> QED BY <1>5, <1>15, <2>5 DEF Came
<1>17. ArePanes(after[7]) /\ after[7]["NavigatorWrapper"].w = Greatest(s.w - AxisWidth, 0)
       /\ DOMAIN after[7] = {"Root", "Header", "HeaderSpacer", "MainContent", "ChartArea", "YAxis", "DrawingArea", "ChartsContainer", "TimeAxis", "NavigatorWrapper", "HeatmapWithOrderBook", "VolumeChartWrapper", "HeatmapArea", "OrderBook", "VolumeChart", "VolumeChartSpacer"}
  <2>1. Joined(after[6], t[7], after[7]) /\ IsRect(after[6][t[7].id])
    <3>1. 7 \in 1 .. 9 /\ 7 - 1 = 6 /\ t[7].id \in DOMAIN after[6]
      BY <1>5, <1>16
    <3> QED BY <1>9, <1>16, <3>1
  <2>3. PICK c, d : t[7].children = Two("VolumeChart", c, "VolumeChartSpacer", d)
    BY <1>5
  <2>4. "VolumeChart" \notin DOMAIN after[6] /\ "VolumeChartSpacer" \notin DOMAIN after[6]
    BY <1>16
  <2>5. /\ Came(after[6], after[7], {"VolumeChart", "VolumeChartSpacer"})
    <3>1. t[7].down = FALSE
      BY <1>5
    <3> QED BY <2>1, <2>3, <2>4, <3>1, JoinTwo
  <2> QED BY <1>5, <1>16, <2>5 DEF Came
<1>18. ArePanes(after[8]) /\ after[8]["NavigatorMainWrapper"].w = Greatest(s.w - AxisWidth, 0)
       /\ DOMAIN after[8] = {"Root", "Header", "HeaderSpacer", "MainContent", "ChartArea", "YAxis", "DrawingArea", "ChartsContainer", "TimeAxis", "NavigatorWrapper", "HeatmapWithOrderBook", "VolumeChartWrapper", "HeatmapArea", "OrderBook", "VolumeChart", "VolumeChartSpacer", "NavigatorMainWrapper"}
  <2>1. Joined(after[7], t[8], after[8]) /\ IsRect(after[7][t[8].id])
    <3>1. 8 \in 1 .. 9 /\ 8 - 1 = 7 /\ t[8].id \in DOMAIN after[7]
      BY <1>5, <1>17
    <3> QED BY <1>9, <1>17, <3>1
  <2>2. Extents(t[8].children, after[7]["NavigatorWrapper"].w)[1] = Greatest(s.w - AxisWidth, 0)
    <3>1. AreChildren(t[8].children) /\ after[7]["NavigatorWrapper"].w \in Nat
      BY <1>5, <1>6, <2>1 DEF IsRect
    <3>2. t[8].children[1][2] = Fill /\ Fill.by = "fill"
      BY <1>5, <1>6 DEF Fixed, Percent, Fill, Two
    <3> QED BY <1>6, <1>17, <3>1, <3>2, ExtentsOfChildren DEF NavigatorWidth
  <2>3. PICK c : t[8].children = << <<"NavigatorMainWrapper", c>> >>
    BY <1>5
  <2>4. "NavigatorMainWrapper" \notin DOMAIN after[7]
    BY <1>17
  <2>5. /\ Came(after[7], after[8], {"NavigatorMainWrapper"})
        /\ after[8]["NavigatorMainWrapper"].w = Extents(t[8].children, after[7][t[8].id].w)[1]
    <3>1. t[8].down = FALSE
      BY <1>5
    <3> QED BY <2>1, <2>3, <2>4, <3>1, JoinOne
  <2> QED BY <1>5, <1>17, <2>5, <2>2 DEF Came
<1>19. ArePanes(after[9]) /\ after[9]["NavigatorContainer"].w = NavigatorWidth(s)
       /\ DOMAIN after[9] = {"Root", "Header", "HeaderSpacer", "MainContent", "ChartArea", "YAxis", "DrawingArea", "ChartsContainer", "TimeAxis", "NavigatorWrapper", "HeatmapWithOrderBook", "VolumeChartWrapper", "HeatmapArea", "OrderBook", "VolumeChart", "VolumeChartSpacer", "NavigatorMainWrapper", "NavigatorContainer", "NavigatorRightSpacer"}
  <2>1. Joined(after[8], t[9], after[9]) /\ IsRect(after[8][t[9].id])
    <3>1. 9 \in 1 .. 9 /\ 9 - 1 = 8 /\ t[9].id \in DOMAIN after[8]
      BY <1>5, <1>18
    <3> QED BY <1>9, <1>18, <3>1
  <2>2. Extents(t[9].children, after[8]["NavigatorMainWrapper"].w)[1] = NavigatorWidth(s)
    <3>1. AreChildren(t[9].children) /\ after[8]["NavigatorMainWrapper"].w \in Nat
      BY <1>5, <1>6, <2>1 DEF IsRect
    <3>2. t[9].children[1][2] = Percent(80) /\ Percent(80).by = "percent" /\ Percent(80).n = 80 /\ 1 \in 1 .. Len(t[9].children)
      BY <1>5, <1>6 DEF Fixed, Percent, Fill, Two
    <3> DEFINE w == after[8]["NavigatorMainWrapper"].w  list == t[9].children
    <3>3. AreChildren(list) /\ w \in Nat /\ 1 \in 1 .. Len(list) /\ list[1][2].by = "percent" /\ list[1][2].n = 80
      BY <1>6, <3>1, <3>2
    <3> HIDE DEF w, list
    <3>4. Extents(list, w)[1] = (w * list[1][2].n) \div 100
      BY <3>3, ExtentsOfChildren
    <3> QED BY <1>18, <3>3, <3>4 DEF w, list, NavigatorWidth
  <2>3. PICK c, d : t[9].children = Two("NavigatorContainer", c, "NavigatorRightSpacer", d)
    BY <1>5
  <2>4. "NavigatorContainer" \notin DOMAIN after[8] /\ "NavigatorRightSpacer" \notin DOMAIN after[8]
    BY <1>18
  <2>5. /\ Came(after[8], after[9], {"NavigatorContainer", "NavigatorRightSpacer"})
        /\ after[9]["NavigatorContainer"].w = Extents(t[9].children, after[8][t[9].id].w)[1]
    <3>1. t[9].down = FALSE
      BY <1>5
    <3> QED BY <2>1, <2>3, <2>4, <3>1, JoinTwo
  <2> QED BY <1>5, <1>18, <2>5, <2>2 DEF Came
<1>20. "HeatmapArea" \in DOMAIN after[9] /\ "NavigatorContainer" \in DOMAIN after[9]
  BY <1>19
<1> QED BY <1>8, <1>19, <1>20 DEF ArePanes
-----------------------------------------------------------------------------
(* The visible range stays within the candles.                             *)

LEMMA DividingRounds ==
  ASSUME NEW a \in Int, NEW b \in Int, b > 0
  PROVE  RoundDiv(a, b) \in Int
<1>1. \A x \in Int, y \in Int : y > 0 => x \div y \in Int
  OBVIOUS
<1>2. 2 * b \in Int /\ 2 * b > 0 /\ 2 * a + b \in Int /\ 2 * (-a) + b \in Int
  OBVIOUS
<1>3. (2 * a + b) \div (2 * b) \in Int /\ (2 * (-a) + b) \div (2 * b) \in Int
  BY <1>1, <1>2
<1>4. \A x \in Int : -x \in Int
  OBVIOUS
<1> QED BY <1>3, <1>4 DEF RoundDiv

\* A zoom asks for a range of natural numbers.
LEMMA ZoomsAreNatural ==
  ASSUME NEW r, NEW total \in Nat, Within(r, total), NEW num \in Nat, NEW den \in Nat \ {0},
         NEW at \in Int, NEW width \in Nat \ {0}
  PROVE  Zoom(r, num, den, at, width).start \in Nat /\ Zoom(r, num, den, at, width).count \in Int
<1> DEFINE old == Greatest(r.count, 1)
           cap == Greatest((8 * r.total) \div 10, MinVisible)
           wanted == Greatest(RoundDiv(old * num, den), MinVisible)
           new == Least(Least(wanted, cap), r.total)
           moved == RoundDiv(r.start * width + (old - new) * at, width)
<1>0. MinVisible \in Nat
  BY DataAssumption
<1>1. r.count \in Nat /\ r.start \in Nat /\ r.total \in Nat /\ old \in Nat
  BY DEF Within, Greatest
<1>2. \A x, y \in Int : x * y \in Int
  OBVIOUS
<1>3. (8 * r.total) \div 10 \in Int
  BY <1>1
<1>4. RoundDiv(old * num, den) \in Int
  <2>1. old * num \in Int /\ den \in Int /\ den > 0
    BY <1>1, <1>2
  <2> HIDE DEF old
  <2> QED BY <2>1, DividingRounds
<1>5. cap \in Int /\ wanted \in Int
  <2> HIDE DEF old
  <2> QED BY <1>0, <1>3, <1>4 DEF Greatest
<1> HIDE DEF old, cap, wanted
<1>6. new \in Int /\ new <= r.total
  BY <1>1, <1>5 DEF Least
<1> HIDE DEF new
<1>7. moved \in Int
  <2>1. r.start * width \in Int /\ (old - new) * at \in Int
    <3>1. old - new \in Int /\ width \in Int
      BY <1>1, <1>6
    <3> QED BY <1>1, <1>2, <3>1
  <2>2. r.start * width + (old - new) * at \in Int
    <3>1. \A x, y \in Int : x + y \in Int
      OBVIOUS
    <3> QED BY <2>1, <3>1
  <2>3. width \in Int /\ width > 0
    OBVIOUS
  <2> QED BY <2>2, <2>3, DividingRounds
<1>8. Zoom(r, num, den, at, width) = [start |-> Least(Greatest(moved, 0), r.total - new), count |-> new]
  BY Zenon DEF Zoom, old, cap, wanted, new
<1> HIDE DEF moved
<1>9. Least(Greatest(moved, 0), r.total - new) \in Nat
  BY <1>1, <1>6, <1>7 DEF Least, Greatest
<1> QED BY <1>6, <1>8, <1>9

LEMMA PlacesAreFractions ==
  ASSUME NEW x \in Int, NEW area, IsRect(area)
  PROVE  At(x, area)[1] \in Int /\ At(x, area)[2] \in Nat \ {0}
<1>1. area.x \in Int /\ area.w \in Nat
  BY DEF IsRect
<1>2. CASE area.w > 0
  <2>1. Clamp(x - area.x, 0, area.w) \in Int
    BY <1>1 DEF Clamp, Least, Greatest
  <2>2. At(x, area) = <<Clamp(x - area.x, 0, area.w), area.w>>
    BY <1>2 DEF At
  <2> QED BY <1>1, <1>2, <2>1, <2>2
<1>3. CASE ~(area.w > 0)
  <2>1. At(x, area) = <<1, 2>>
    BY <1>3, Zenon DEF At
  <2> QED BY <2>1
<1> QED BY <1>2, <1>3

\* From any layout the range begins with so many candles at the tail.
LEMMA FirstRanges ==
  ASSUME NEW total \in Nat, Density(total) \in Nat \ {0}, NEW l, IsRect(RectOf(l, "HeatmapArea"))
  PROVE  Within(FromLayout(l, total), total)
<1> DEFINE w == RectOf(l, "HeatmapArea").w
           room == Greatest(w, MinWidth) \div Density(total)
           count == Greatest(Least(Clamp(room, MinInitial, MaxInitial), total), 1)
<1>0. {MinWidth, MinInitial, MaxInitial} \subseteq Nat
  BY DataAssumption
<1>1. w \in Nat
  BY DEF IsRect
<1> HIDE DEF w
<1>2. room \in Int
  <2>1. \A x \in Nat, y \in Nat \ {0} : x \div y \in Int
    OBVIOUS
  <2>2. Greatest(w, MinWidth) \in Nat
    BY <1>0, <1>1 DEF Greatest
  <2> QED BY <2>1, <2>2
<1> HIDE DEF room
<1>3. count \in Int
  BY <1>0, <1>2 DEF Greatest, Least, Clamp
<1>4. FromLayout(l, total) = IF total = 0 THEN NewRange(0, 0, 0) ELSE NewRange(Minus(total, count), count, total)
  BY Zenon DEF FromLayout, w, room
<1> HIDE DEF count
<1>5. Minus(total, count) \in Nat
  BY <1>3 DEF Minus, Greatest
<1>6. Within(NewRange(Minus(total, count), count, total), total)
  BY <1>3, <1>5, NewRangesAreWithin
<1>7. Within(NewRange(0, 0, 0), 0)
  <2>1. 0 \in Nat /\ 0 \in Int
    OBVIOUS
  <2> QED BY <2>1, NewRangesAreWithin
<1> QED BY <1>4, <1>6, <1>7

\* Another range, on the same candles.
SameCandles(d, e) == DataInv(e) /\ e.hist = d.hist /\ e.incr = d.incr

LEMMA UpdatesStayWithin ==
  ASSUME NEW d, DataInv(d), Ranged(d), NEW start \in Nat, NEW count \in Int
  PROVE  LET e == UpdateVisibleRange(d, start, count)
             r == NewRange(start, count, Length(d))
         IN SameCandles(d, e) /\ Ranged(e) /\ e.range.start = r.start /\ e.range.count = r.count
<1> DEFINE e == UpdateVisibleRange(d, start, count)
           r == NewRange(start, count, Length(d))
           w == [d EXCEPT !.range = r]
<1>0. Length(d) \in Nat /\ d.range.total = Length(d)
  BY Lengths DEF DataInv, Ranged, Within
<1>1. UpdateRange(d.range, start, count) = r
  BY <1>0 DEF UpdateRange
<1>2. Within(r, Length(d))
  BY <1>0, NewRangesAreWithin
<1>3. e = IF r.start = d.range.start /\ r.count = d.range.count THEN d ELSE InvalidateCache(w)
  BY <1>1 DEF UpdateVisibleRange
<1>4. DOMAIN w = DataFields /\ w.hist = d.hist /\ w.incr = d.incr /\ w.index = d.index /\ w.range = r
  BY DEF DataInv, DataFields
<1> HIDE DEF w, r
<1>5. IndexIsRight(w)
  BY <1>4, WorkedOutOfCandles DEF DataInv
<1>6. SameCandles(d, InvalidateCache(w)) /\ InvalidateCache(w).range = r
  BY <1>4, <1>5, InvalidatedIsFresh DEF DataInv, SameCandles
<1>7. SameCandles(d, d)
  BY DEF SameCandles
<1> HIDE DEF e
<1>8. SameCandles(d, e) /\ (e.range = r \/ (e = d /\ r.start = d.range.start /\ r.count = d.range.count))
  BY <1>3, <1>6, <1>7
<1>9. e.hist = d.hist /\ e.incr = d.incr
  BY <1>8 DEF SameCandles
<1>10. Length(e) = Length(d)
  BY <1>9 DEF Length
<1>11. Ranged(e)
  BY <1>2, <1>8, <1>10 DEF Ranged
<1> QED BY <1>8, <1>11 DEF e, r

LEMMA FirstRangesStayWithin ==
  ASSUME NEW d, DataInv(d), Density(Length(d)) \in Nat \ {0}, NEW l, IsRect(RectOf(l, "HeatmapArea"))
  PROVE  SameCandles(d, InitializeVisibleRange(d, l)) /\ Ranged(InitializeVisibleRange(d, l))
<1> DEFINE r == FromLayout(l, Length(d))
           w == [d EXCEPT !.range = r]
           e == InitializeVisibleRange(d, l)
<1>0. Length(d) \in Nat
  BY Lengths DEF DataInv
<1>1. Within(r, Length(d))
  BY <1>0, FirstRanges
<1>2. e = InvalidateCache(w)
  BY DEF InitializeVisibleRange
<1>3. DOMAIN w = DataFields /\ w.hist = d.hist /\ w.incr = d.incr /\ w.index = d.index /\ w.range = r
  BY DEF DataInv, DataFields
<1> HIDE DEF w, r
<1>4. IndexIsRight(w)
  BY <1>3, WorkedOutOfCandles DEF DataInv
<1>5. SameCandles(d, InvalidateCache(w)) /\ InvalidateCache(w).range = r
  BY <1>3, <1>4, InvalidatedIsFresh DEF DataInv, SameCandles
<1> HIDE DEF e
<1>6. SameCandles(d, e) /\ e.range = r
  BY <1>2, <1>5
<1>7. Length(e) = Length(d)
  BY <1>6 DEF SameCandles, Length
<1> QED BY <1>1, <1>6, <1>7 DEF Ranged, e

LEMMA RangesOfDataStay ==
  ASSUME NEW d, DataInv(d)
  PROVE  LET e == CalculateDataRanges(d) IN SameCandles(d, e) /\ e.range = d.range /\ (Ranged(d) => Ranged(e))
<1> DEFINE e == CalculateDataRanges(d)
<1>1. DataInv(e) /\ e.hist = d.hist /\ e.incr = d.incr /\ e.range = d.range
  BY RangesOfData
<1> HIDE DEF e
<1>2. Length(e) = Length(d)
  BY <1>1 DEF Length
<1> QED BY <1>1, <1>2 DEF SameCandles, Ranged, e

LEMMA MainWheelStaysWithin ==
  ASSUME NEW d, DataInv(d), Ranged(d), NEW x \in Int, NEW area, IsRect(area), NEW down \in BOOLEAN
  PROVE  SameCandles(d, HandleMainWheel(d, x, area, down)) /\ Ranged(HandleMainWheel(d, x, area, down))
<1> DEFINE z == ZoomByWheel(d.range, x, area, down)
           u == UpdateVisibleRange(d, z.start, z.count)
<1>0. SameCandles(d, d)
  BY DEF SameCandles
<1>1. z.start \in Nat /\ z.count \in Int
  <2> DEFINE pace == LET slow == Greatest(d.range.count, 1) <= SmallCount IN
                CASE slow /\ down -> <<95, 100>> [] slow /\ ~down -> <<105, 100>>
                  [] ~slow /\ down -> <<90, 100>> [] OTHER -> <<110, 100>>
  <2>1. z = Zoom(d.range, pace[1], pace[2], At(x, area)[1], At(x, area)[2])
    BY Zenon DEF ZoomByWheel
  <2>2. pace \in {<<95, 100>>, <<105, 100>>, <<90, 100>>, <<110, 100>>}
    BY Zenon
  <2> HIDE DEF pace
  <2>3. pace[1] \in Nat /\ pace[2] \in Nat \ {0}
    BY <2>2
  <2>4. Length(d) \in Nat
    BY Lengths DEF DataInv
  <2> QED BY <2>1, <2>3, <2>4, PlacesAreFractions, ZoomsAreNatural DEF Ranged
<1> HIDE DEF z
<1>2. SameCandles(d, u) /\ Ranged(u)
  BY <1>1, UpdatesStayWithin
<1> HIDE DEF u
<1>3. SameCandles(u, CalculateDataRanges(u)) /\ Ranged(CalculateDataRanges(u))
  BY <1>2, RangesOfDataStay DEF SameCandles
<1>4. HandleMainWheel(d, x, area, down) \in {d, CalculateDataRanges(u)}
  BY DEF HandleMainWheel, u, z
<1> QED BY <1>0, <1>2, <1>3, <1>4 DEF SameCandles

LEMMA FirstDataIsWithin ==
  ASSUME NEW hist, IsList(hist)
  PROVE  LET d == SetInitialData(hist) IN Ranged(d) /\ d.hist = hist /\ Len(d.incr) = 0
<1> DEFINE first == UpdateTotalLen(NewRange(0, 0, 0), Len(hist))
           d == [hist |-> hist, incr |-> <<>>, index |-> <<>>, cal |-> None, heat |-> None, range |-> first]
           e == [d EXCEPT !.heat = BuildHeat(d)]
<1>1. SetInitialData(hist) = e
  BY DEF SetInitialData
<1>2. e.hist = hist /\ e.incr = <<>> /\ e.range = first
  OBVIOUS
<1>3. Len(hist) \in Nat /\ 0 \in Nat /\ 0 \in Int
  BY Lists
<1>4. Within(NewRange(0, 0, 0), 0)
  BY <1>3, NewRangesAreWithin
<1>5. Within(first, Len(hist))
  <2>1. NewRange(0, 0, 0).start \in Nat /\ NewRange(0, 0, 0).count \in Int /\ NewRange(0, 0, 0).total = 0
    BY <1>4 DEF Within
  <2> QED BY <1>3, <1>4, <2>1, NewRangesAreWithin DEF UpdateTotalLen
<1> HIDE DEF e, first
<1>6. Len(e.incr) = 0 /\ Length(e) = Len(hist)
  <2>1. Len(e.incr) = 0
    BY <1>2
  <2>2. Length(e) = Len(hist) + 0
    BY <1>2, <2>1 DEF Length
  <2> QED BY <1>3, <2>1, <2>2
<1> QED BY <1>1, <1>2, <1>5, <1>6 DEF Ranged

-----------------------------------------------------------------------------
(* The canvas, the layout, the range and the hand that drags it.           *)

Canvases == Resizes \union {NoCanvas}

Placed(l) == l.canvas = None \/ (l.canvas \in Canvases /\ \E m \in Modes : l.panes = Panes[m][l.canvas])

\* A drag goes on from a range that the candles had and still have, on a
\* canvas of some width.
Held(c) ==
  /\ c.drag.dragging /\ c.drag.x \in Int /\ c.drag.start \in Nat /\ c.drag.count \in Nat \ {0}
  /\ c.drag.start + c.drag.count <= Length(c.dm)
  /\ c.layout.canvas \in Resizes /\ c.canvas \in Resizes

Sized(c) ==
  /\ c.canvas \in Canvases /\ Placed(c.layout)
  /\ c.layout.canvas \in Resizes => c.canvas \in Resizes

RangeInv(c) ==
  /\ ChartInv(c) /\ DOMAIN c.mouse = MouseFields /\ DOMAIN c.drag = DragFields /\ c.mode \in Modes
  /\ Ranged(c.dm) /\ c.dm.hist \in Histories /\ Len(c.dm.incr) <= MaxIncr
  /\ Sized(c)
  /\ c.mouse.dragging => Held(c)

\* From c to d candles may have come, and the canvas its size, but no drag
\* has begun.
Follows(c, d) ==
  /\ ChartInv(d) /\ DOMAIN d.mouse = MouseFields /\ d.mode \in Modes
  /\ Ranged(d.dm) /\ d.dm.hist = c.dm.hist /\ Len(d.dm.incr) <= MaxIncr /\ Length(c.dm) <= Length(d.dm)
  /\ Sized(d)
  /\ c.canvas \in Resizes => d.canvas \in Resizes
  /\ c.layout.canvas \in Resizes => d.layout.canvas \in Resizes
  /\ d.drag = c.drag /\ (d.mouse.dragging => c.mouse.dragging)

LEMMA FollowingKeepsTheRange ==
  ASSUME NEW c, RangeInv(c), NEW d, Follows(c, d)
  PROVE  RangeInv(d)
<1>1. ASSUME d.mouse.dragging PROVE Held(d)
  <2>1. Held(c)
    BY <1>1 DEF RangeInv, Follows
  <2>2. Length(c.dm) \in Nat /\ Length(d.dm) \in Nat
    BY Lengths DEF RangeInv, Follows, ChartInv, DataInv
  <2>3. Length(c.dm) <= Length(d.dm) /\ d.drag = c.drag
    BY DEF Follows
  <2>4. \A n \in Nat : n <= Length(c.dm) => n <= Length(d.dm)
    BY <2>2, <2>3
  <2>5. c.drag.start + c.drag.count \in Nat
    BY <2>1 DEF Held
  <2>6. d.canvas \in Resizes /\ d.layout.canvas \in Resizes
    BY <2>1 DEF Held, Follows
  <2> QED BY <2>1, <2>3, <2>4, <2>5, <2>6 DEF Held
<1> QED BY <1>1 DEF RangeInv, Follows

LEMMA LengthsAreAlike ==
  ASSUME NEW d, DataInv(d), NEW e, SameCandles(d, e)
  PROVE  Length(e) = Length(d) /\ Length(d) \in Nat /\ Length(d) <= Length(e) /\ Len(e.incr) = Len(d.incr)
<1>1. Length(e) = Length(d) /\ Len(e.incr) = Len(d.incr)
  BY DEF SameCandles, Length
<1>2. Length(d) \in Nat
  BY Lengths DEF DataInv
<1>3. \A n \in Nat : n <= n
  OBVIOUS
<1> QED BY <1>1, <1>2, <1>3

\* Other data on the same chart.
LEMMA OtherRange ==
  ASSUME NEW c, RangeInv(c), NEW e, SameCandles(c.dm, e), Ranged(e)
  PROVE  Follows(c, [c EXCEPT !.dm = e]) /\ RangeInv([c EXCEPT !.dm = e])
<1> DEFINE d == [c EXCEPT !.dm = e]
<1>1. DataInv(e) /\ e.hist = c.dm.hist /\ Len(e.incr) <= MaxIncr /\ Length(c.dm) <= Length(e)
  BY LengthsAreAlike DEF SameCandles, RangeInv, ChartInv
<1>2. /\ DOMAIN d = ChartFields /\ d.dm = e /\ d.mouse = c.mouse /\ d.drag = c.drag /\ d.mode = c.mode
      /\ d.canvas = c.canvas /\ d.layout = c.layout
  BY DEF RangeInv, ChartInv, ChartFields
<1> HIDE DEF d
<1>3. Follows(c, d)
  BY <1>1, <1>2 DEF Follows, RangeInv, ChartInv, Sized
<1> QED BY <1>3, FollowingKeepsTheRange DEF d

\* What touches none of all this.
Beside(c, d) ==
  /\ DOMAIN d = ChartFields /\ d.dm = c.dm /\ d.drag = c.drag /\ d.mode = c.mode
  /\ d.canvas = c.canvas /\ d.layout = c.layout
  /\ DOMAIN d.mouse = MouseFields /\ (d.mouse.dragging => c.mouse.dragging)

LEMMA BesideFollows ==
  ASSUME NEW c, RangeInv(c), NEW d, Beside(c, d)
  PROVE  Follows(c, d) /\ RangeInv(d)
<1>1. Length(c.dm) <= Length(d.dm)
  BY LengthsAreAlike DEF RangeInv, ChartInv, SameCandles, Beside
<1>2. Follows(c, d)
  BY <1>1 DEF Follows, Beside, RangeInv, ChartInv, Sized
<1> QED BY <1>2, FollowingKeepsTheRange

LEMMA RenderKeepsTheRange ==
  ASSUME NEW c, RangeInv(c)
  PROVE  /\ Follows(c, Render(c)) /\ RangeInv(Render(c))
         /\ Render(c).dm.range = c.dm.range
<1> DEFINE d == Render(c)
           w == [c EXCEPT !.dm = CalculateDataRanges(c.dm)]
<1>1. SameCandles(c.dm, CalculateDataRanges(c.dm)) /\ Ranged(CalculateDataRanges(c.dm))
      /\ CalculateDataRanges(c.dm).range = c.dm.range
  BY RangesOfDataStay DEF RangeInv, ChartInv
<1>2. RangeInv(w) /\ Follows(c, w)
  BY <1>1, OtherRange
<1>3. /\ DOMAIN d = ChartFields /\ d.dm \in {c.dm, CalculateDataRanges(c.dm)} /\ d.drag = c.drag /\ d.mode = c.mode
      /\ d.canvas = c.canvas /\ d.layout = c.layout /\ d.mouse = c.mouse
  BY DEF RangeInv, ChartInv, ChartFields, Render, ClearAllDirtyFlags
<1>4. /\ DOMAIN w = ChartFields /\ w.dm = CalculateDataRanges(c.dm) /\ w.drag = c.drag /\ w.mode = c.mode
      /\ w.canvas = c.canvas /\ w.layout = c.layout /\ w.mouse = c.mouse
  BY DEF RangeInv, ChartInv, ChartFields
<1> HIDE DEF d, w
<1>5. Beside(c, d) \/ Beside(w, d)
  BY <1>3, <1>4 DEF Beside, RangeInv
<1>6. RangeInv(d)
  BY <1>2, <1>5, BesideFollows
<1>7. Follows(c, d)
  <2>1. CASE Beside(c, d)
    BY <2>1, BesideFollows
  <2>2. CASE Beside(w, d)
    <3>1. d.dm = w.dm
      BY <2>2 DEF Beside
    <3> QED BY <1>2, <1>3, <1>4, <1>6, <3>1 DEF Follows, RangeInv
  <2> QED BY <1>5, <2>1, <2>2
<1> QED BY <1>1, <1>3, <1>6, <1>7 DEF d

LEMMA LayoutKeepsTheRange ==
  ASSUME NEW c, RangeInv(c)
  PROVE  LET d == UpdateLayout(c) IN
         /\ RangeInv(d) /\ d.dm = c.dm /\ d.canvas = c.canvas /\ d.layout.canvas = c.canvas
         /\ d.mouse = c.mouse /\ d.drag = c.drag
<1> DEFINE d == UpdateLayout(c)
<1>1. /\ DOMAIN d = ChartFields /\ d.dm = c.dm /\ d.drag = c.drag /\ d.mode = c.mode
      /\ d.canvas = c.canvas /\ d.layout = NewLayout(c.mode, c.canvas, c.dm.range.count) /\ d.mouse = c.mouse
  BY DEF RangeInv, ChartInv, ChartFields, UpdateLayout
<1>2. d.layout.canvas = c.canvas /\ d.layout.panes = Panes[c.mode][c.canvas]
  BY <1>1 DEF NewLayout
<1> HIDE DEF d
<1>3. Sized(d)
  BY <1>1, <1>2 DEF RangeInv, Sized, Placed
<1>4. Length(c.dm) <= Length(d.dm)
  BY <1>1, LengthsAreAlike DEF RangeInv, ChartInv, SameCandles
<1>5. Follows(c, d)
  BY <1>1, <1>2, <1>3, <1>4 DEF Follows, RangeInv, ChartInv, Sized
<1>6. RangeInv(d)
  BY <1>5, FollowingKeepsTheRange
<1> QED BY <1>1, <1>2, <1>6 DEF d

LEMMA LayoutChangeKeepsTheRange ==
  ASSUME NEW c, RangeInv(c)
  PROVE  RangeInv(HandleLayoutChange(c)) /\ HandleLayoutChange(c).dm.range = c.dm.range
<1> DEFINE u == UpdateLayout(c)
           x == SetAllDirty(u)
<1>1. RangeInv(u) /\ u.dm = c.dm
  BY LayoutKeepsTheRange
<1> HIDE DEF u
<1>2. Beside(u, x) /\ x.dm = u.dm
  BY <1>1 DEF SetAllDirty, Beside, RangeInv, ChartInv, ChartFields
<1>3. HandleLayoutChange(c) = Render(x)
  BY DEF HandleLayoutChange, u
<1> HIDE DEF x
<1>4. RangeInv(x)
  BY <1>1, <1>2, BesideFollows
<1> QED BY <1>1, <1>2, <1>3, <1>4, RenderKeepsTheRange

\* The panes of any layout have rectangles, and the navigator has a width just
\* where the canvas has been given a size.
LEMMA RectsOfLayouts ==
  ASSUME NEW l, Placed(l)
  PROVE  LET nav == RectOf(l, "NavigatorContainer") IN
         /\ IsRect(RectOf(l, "HeatmapArea")) /\ IsRect(nav)
         /\ nav.w > 0 <=> l.canvas \in Resizes
<1>0. AxisWidth \in Nat /\ NoCanvas \in Sizes /\ Resizes \subseteq Sizes /\ None \notin Resizes /\ None # NoCanvas
  BY LayoutAssumption, ChartAssumption
<1>1. CASE l.canvas = None
  <2>1. \A p : RectOf(l, p) = [x |-> 0, y |-> 0, w |-> 0, h |-> 0]
    BY <1>1 DEF RectOf, Rect
  <2> QED BY <1>0, <1>1, <2>1 DEF IsRect
<1>2. CASE l.canvas # None
  <2>1. PICK m \in Modes : l.panes = Panes[m][l.canvas]
    BY <1>2 DEF Placed
  <2>2. l.canvas \in Sizes /\ l.canvas \in Canvases
    BY <1>0, <1>2 DEF Placed, Canvases
  <2>3. \A p : RectOf(l, p) = Panes[m][l.canvas][p]
    BY <1>2, <2>1 DEF RectOf
  <2>4. /\ IsRect(Panes[m][l.canvas]["HeatmapArea"]) /\ IsRect(Panes[m][l.canvas]["NavigatorContainer"])
        /\ Panes[m][l.canvas]["NavigatorContainer"].w = NavigatorWidth(l.canvas)
    BY <2>2, PanesOfTheTemplate
  <2>5. ASSUME NEW s \in Resizes PROVE NavigatorWidth(s) > 0
    <3>1. s.w > AxisWidth + 1 /\ s.w \in Nat
      BY <1>0, ResizesAssumption, LayoutAssumption
    <3>2. \A w, a \in Nat : w > a + 1 => (Greatest(w - a, 0) * 80) \div 100 > 0
      BY DEF Greatest
    <3> QED BY <1>0, <3>1, <3>2 DEF NavigatorWidth
  <2>6. ~(NavigatorWidth(NoCanvas) > 0) /\ NoCanvas \notin Resizes
    <3>1. NoCanvas.w = 0
      BY DEF NoCanvas
    <3>2. \A a \in Nat : ~((Greatest(0 - a, 0) * 80) \div 100 > 0) /\ ~(0 > a + 1)
      BY DEF Greatest
    <3>3. NavigatorWidth(NoCanvas) = (Greatest(0 - AxisWidth, 0) * 80) \div 100
      BY <3>1 DEF NavigatorWidth
    <3> HIDE DEF NoCanvas
    <3>4. NoCanvas \notin Resizes
      BY <1>0, <3>1, <3>2, ResizesAssumption
    <3> QED BY <1>0, <3>2, <3>3, <3>4
  <2>7. NavigatorWidth(l.canvas) > 0 <=> l.canvas \in Resizes
    BY <2>2, <2>5, <2>6 DEF Canvases
  <2> QED BY <2>3, <2>4, <2>7
<1> QED BY <1>1, <1>2

\* Where the mouse takes hold of something there are candles and a navigator.
LEMMA HoldsOfSomething ==
  ASSUME NEW c, RangeInv(c), NEW p, p.x \in Int, HandleAt(c, p) # "none"
  PROVE  Length(c.dm) > 0 /\ RectOf(c.layout, "NavigatorContainer").w > 0
<1> DEFINE nav == RectOf(c.layout, "NavigatorContainer")
           n == Length(c.dm)
           x == (p.x - nav.x) * n
           left == c.dm.range.start * nav.w
           right == (c.dm.range.start + c.dm.range.count) * nav.w
           Near(edge) == 20 * (IF x > edge THEN x - edge ELSE edge - x) < n * Least(20 * HandleWidth, nav.w)
<1>1. n \in Nat /\ nav.w \in Nat /\ c.dm.range.start \in Nat /\ c.dm.range.count \in Nat
  <2>1. IsRect(nav)
    BY RectsOfLayouts DEF RangeInv, Sized
  <2> QED BY <2>1, Lengths DEF RangeInv, ChartInv, DataInv, Ranged, Within, IsRect
<1>2. HandleAt(c, p) = IF ~Encloses(nav, p) \/ n = 0 THEN "none"
       ELSE CASE Near(left) /\ Near(right) -> IF x - left < right - x THEN "left" ELSE "right"
              [] Near(left) /\ ~Near(right) -> "left"
              [] ~Near(left) /\ Near(right) -> "right"
              [] OTHER -> IF x > left /\ x < right THEN "middle" ELSE "none"
  BY Zenon DEF HandleAt
<1> HIDE DEF n, x, left, right
<1>3. n # 0
  <2>1. ASSUME n = 0 PROVE HandleAt(c, p) = "none"
    BY <1>2, <2>1, Zenon
  <2> QED BY <2>1
<1>4. ASSUME nav.w = 0 PROVE FALSE
  <2>1. left = 0 /\ right = 0
    <3>1. \A a \in Nat : a * 0 = 0
      OBVIOUS
    <3>2. c.dm.range.start + c.dm.range.count \in Nat
      BY <1>1
    <3> QED BY <1>1, <1>4, <3>1, <3>2 DEF left, right
  <2>2. HandleWidth \in Nat
    BY ChartAssumption
  <2>3. Least(20 * HandleWidth, nav.w) = 0
    BY <1>4, <2>2 DEF Least
  <2>4. n * Least(20 * HandleWidth, nav.w) = 0
    BY <1>1, <2>3
  <2>5. x \in Int
    <3>1. IsRect(nav)
      BY RectsOfLayouts DEF RangeInv, Sized
    <3>2. nav.x \in Int
      BY <3>1 DEF IsRect
    <3>3. \A a \in Int, b \in Int, m \in Nat : (a - b) * m \in Int
      OBVIOUS
    <3> QED BY <1>1, <3>2, <3>3 DEF x
  <2>6. \A a \in Int : ~(20 * (IF a > 0 THEN a - 0 ELSE 0 - a) < 0) /\ ~(a > 0 /\ a < 0)
    OBVIOUS
  <2>7. ~(20 * (IF x > 0 THEN x - 0 ELSE 0 - x) < 0) /\ ~(x > 0 /\ x < 0)
    BY <2>5, <2>6
  <2>8. ~Near(left) /\ ~Near(right) /\ ~(x > left /\ x < right)
    BY <2>1, <2>4, <2>7
  <2> QED BY <1>2, <1>3, <2>8, Zenon
<1> QED BY <1>1, <1>3, <1>4 DEF n

LEMMA PressingKeepsTheRange ==
  ASSUME NEW c, RangeInv(c), NEW p, p.x \in Int
  PROVE  RangeInv(Press(c, p))
<1> DEFINE h == HandleAt(c, p)
           d == [c EXCEPT !.mouse.dragging = TRUE, !.mouse.handle = h,
                  !.drag = [dragging |-> TRUE, x |-> p.x, handle |-> h, start |-> c.dm.range.start, count |-> c.dm.range.count]]
<1>1. Press(c, p) = IF h = "none" THEN c ELSE Render(d)
  BY DEF Press
<1> HIDE DEF h
<1>2. ASSUME h # "none" PROVE RangeInv(d)
  <2>1. /\ DOMAIN d = ChartFields /\ d.dm = c.dm /\ d.mode = c.mode /\ d.canvas = c.canvas /\ d.layout = c.layout
        /\ DOMAIN d.mouse = MouseFields /\ DOMAIN d.drag = DragFields
        /\ d.drag.dragging /\ d.drag.x = p.x /\ d.drag.start = c.dm.range.start /\ d.drag.count = c.dm.range.count
    BY DEF RangeInv, ChartInv, ChartFields, MouseFields, DragFields, NewMouse, NewDrag
  <2> HIDE DEF d
  <2>2. Length(c.dm) > 0 /\ c.layout.canvas \in Resizes
    BY <1>2, HoldsOfSomething, RectsOfLayouts DEF RangeInv, Sized, h
  <2>3. /\ c.dm.range.start \in Nat /\ c.dm.range.count \in Nat /\ c.dm.range.count >= 1
        /\ c.dm.range.start + c.dm.range.count <= Length(c.dm)
    BY <2>2 DEF RangeInv, Ranged, Within
  <2>4. Held(d)
    BY <2>1, <2>2, <2>3 DEF Held, RangeInv, Sized
  <2> QED BY <2>1, <2>4 DEF RangeInv, ChartInv, Sized
<1> HIDE DEF d
<1> QED BY <1>1, <1>2, RenderKeepsTheRange


\* The range a drag asks for: with MinVisible candles to begin with, the edge
\* that is not held stays, and no fewer of them are left.
LEMMA DragsAsk ==
  ASSUME NEW c, RangeInv(c), Held(c), NEW x \in Int
  PROVE  LET d == Dragged(c, x)  g == c.drag IN
         /\ d.start \in Nat /\ d.count \in Int
         /\ g.count >= MinVisible =>
              /\ d.count >= MinVisible /\ d.start + d.count <= Length(c.dm)
              /\ g.handle = "left" => d.start + d.count = g.start + g.count
              /\ g.handle = "right" => d.start = g.start
              /\ g.handle = "middle" => d.count = g.count
<1> DEFINE g == c.drag
           n == Length(c.dm)
           s == g.start
           k == g.count
           end == s + k
           width == RectOf(c.layout, "NavigatorContainer").w
           by == RoundDiv((x - g.x) * n, width)
           left == Least(Greatest(s + by, 0), end - MinVisible)
           asked == CASE g.handle = "left" -> [start |-> IF left < 0 THEN n ELSE left, count |-> end - left]
                      [] g.handle = "right" -> [start |-> s, count |-> Least(Greatest(end + by, s + MinVisible), n) - s]
                      [] OTHER -> [start |-> Least(Greatest(s + by, 0), n - k), count |-> k]
           start == Least(asked.start, Minus(n, MinVisible))
           count == Greatest(Least(asked.count, n - start), MinVisible)
<1>0. MinVisible \in Nat /\ MinVisible > 0
  BY DataAssumption
<1>1. n \in Nat /\ s \in Nat /\ k \in Nat /\ end <= n /\ end \in Nat
  <2>1. n \in Nat
    BY Lengths DEF RangeInv, ChartInv, DataInv
  <2>2. s \in Nat /\ k \in Nat /\ end <= n
    BY DEF Held
  <2>3. \A i, j \in Nat : i + j \in Nat
    OBVIOUS
  <2> QED BY <2>1, <2>2, <2>3
<1>2. Dragged(c, x) = [start |-> start, count |-> count]
  BY Zenon DEF Dragged
<1>3. by \in Int
  <2>1. width \in Int /\ width > 0
    BY RectsOfLayouts DEF RangeInv, Sized, Held, IsRect
  <2>2. (x - g.x) * n \in Int
    <3>1. \A a, b \in Int, m \in Nat : (a - b) * m \in Int
      OBVIOUS
    <3>2. g.x \in Int
      BY DEF Held
    <3> QED BY <1>1, <3>1, <3>2
  <2> HIDE DEF width, n, g
  <2> QED BY <2>1, <2>2, DividingRounds
<1> HIDE DEF by, n, s, k
<1>4. CASE g.handle = "left"
  <2>1. asked = [start |-> IF left < 0 THEN n ELSE left, count |-> end - left]
    BY <1>4, Zenon
  <2>2. asked.start = (IF left < 0 THEN n ELSE left) /\ asked.count = end - left
    BY <2>1
  <2> HIDE DEF asked
  <2>3. start \in Nat /\ count \in Int
    BY <1>0, <1>1, <1>3, <2>2 DEF Least, Greatest, Minus
  <2>4. k >= MinVisible => count >= MinVisible /\ start + count <= n /\ start + count = end
    BY <1>0, <1>1, <1>3, <2>2 DEF Least, Greatest, Minus
  <2> QED BY <1>2, <1>4, <2>3, <2>4 DEF n, s, k
<1>5. CASE g.handle = "right"
  <2>1. asked = [start |-> s, count |-> Least(Greatest(end + by, s + MinVisible), n) - s]
    BY <1>5, Zenon
  <2>2. asked.start = s /\ asked.count = Least(Greatest(end + by, s + MinVisible), n) - s
    BY <2>1
  <2> HIDE DEF asked
  <2>3. start \in Nat /\ count \in Int
    BY <1>0, <1>1, <1>3, <2>2 DEF Least, Greatest, Minus
  <2>4. k >= MinVisible => count >= MinVisible /\ start + count <= n /\ start = s
    BY <1>0, <1>1, <1>3, <2>2 DEF Least, Greatest, Minus
  <2> QED BY <1>2, <1>5, <2>3, <2>4 DEF n, s, k
<1>6. CASE g.handle \notin {"left", "right"}
  <2>1. asked = [start |-> Least(Greatest(s + by, 0), n - k), count |-> k]
    BY <1>6, Zenon
  <2>2. asked.start = Least(Greatest(s + by, 0), n - k) /\ asked.count = k
    BY <2>1
  <2> HIDE DEF asked
  <2>3. start \in Nat /\ count \in Int
    BY <1>0, <1>1, <1>3, <2>2 DEF Least, Greatest, Minus
  <2>4. k >= MinVisible => count >= MinVisible /\ start + count <= n /\ count = k
    BY <1>0, <1>1, <1>3, <2>2 DEF Least, Greatest, Minus
  <2> QED BY <1>2, <1>6, <2>3, <2>4 DEF n, s, k
<1> QED BY <1>4, <1>5, <1>6

\* What a drag promises of the range it leaves.
DragKept(g, r) ==
  g.count >= MinVisible =>
    /\ g.handle = "left" => r.end = g.start + g.count
    /\ g.handle = "right" => r.start = g.start
    /\ g.handle = "middle" => r.count = g.count
    /\ r.count >= MinVisible

LEMMA DraggingKeepsTheRange ==
  ASSUME NEW c, RangeInv(c), Held(c), NEW p, p.x \in Int
  PROVE  /\ RangeInv(DragTo(c, p))
         /\ c.drag.handle # "none" => DragKept(c.drag, DragTo(c, p).dm.range)
<1> DEFINE d == Dragged(c, p.x)
           e == UpdateVisibleRange(c.dm, d.start, d.count)
           w == [c EXCEPT !.dm = e]
           n == Length(c.dm)
           r == NewRange(d.start, d.count, n)
<1>1. DragTo(c, p) = IF ~c.drag.dragging \/ n = 0 \/ c.drag.handle = "none" THEN c ELSE HandleLayoutChange(w)
  BY Zenon DEF DragTo
<1>2. d.start \in Nat /\ d.count \in Int
  BY DragsAsk
<1>3. SameCandles(c.dm, e) /\ Ranged(e) /\ e.range.start = r.start /\ e.range.count = r.count
  BY <1>2, UpdatesStayWithin DEF RangeInv, ChartInv
<1>4. RangeInv(w) /\ w.dm = e
  <2>1. w.dm = e
    BY DEF RangeInv, ChartInv, ChartFields
  <2> HIDE DEF e, w
  <2>2. RangeInv([c EXCEPT !.dm = e])
    BY <1>3, OtherRange
  <2> QED BY <2>1, <2>2 DEF w
<1>5. RangeInv(HandleLayoutChange(w)) /\ HandleLayoutChange(w).dm.range = e.range
  <2> HIDE DEF w, e
  <2> QED BY <1>4, LayoutChangeKeepsTheRange
<1>6. ASSUME c.drag.count >= MinVisible PROVE DragKept(c.drag, e.range)
  <2>0. MinVisible \in Nat /\ MinVisible > 0 /\ n \in Nat
    <3>1. n \in Nat
      BY Lengths DEF RangeInv, ChartInv, DataInv
    <3> QED BY <3>1, DataAssumption
  <2>1. /\ d.count >= MinVisible /\ d.start + d.count <= n
        /\ c.drag.handle = "left" => d.start + d.count = c.drag.start + c.drag.count
        /\ c.drag.handle = "right" => d.start = c.drag.start
        /\ c.drag.handle = "middle" => d.count = c.drag.count
    BY <1>6, DragsAsk
  <2> HIDE DEF d, n
  <2>2. r.start = d.start /\ r.count = d.count
    <3>1. d.count >= 1
      BY <1>2, <2>0, <2>1
    <3> QED BY <1>2, <2>0, <2>1, <3>1, NewRangesAreWithin
  <2> HIDE DEF e, r
  <2>3. e.range.end = d.start + d.count
    BY <1>3, <2>2 DEF Ranged, Within
  <2> QED BY <1>3, <2>1, <2>2, <2>3 DEF DragKept
<1>7. c.drag.dragging /\ n # 0
  <2>1. n \in Nat /\ c.drag.start \in Nat /\ c.drag.count \in Nat \ {0} /\ c.drag.start + c.drag.count <= n /\ c.drag.dragging
    BY Lengths DEF RangeInv, ChartInv, DataInv, Held
  <2> HIDE DEF n
  <2> QED BY <2>1
<1> HIDE DEF w, e, n
<1>8. DragKept(c.drag, e.range)
  BY <1>6 DEF DragKept
<1> QED BY <1>1, <1>5, <1>7, <1>8, Zenon

LEMMA MovingKeepsTheRange ==
  ASSUME NEW c, RangeInv(c), NEW p
  PROVE  LET d == MoveTo(c, p) IN
         RangeInv(d) /\ d.dm = c.dm /\ d.drag = c.drag /\ d.layout = c.layout
         /\ d.mouse.dragging = c.mouse.dragging /\ (Held(c) => Held(d))
<1> DEFINE d == MoveTo(c, p)
<1>1. /\ Beside(c, d) /\ d.dm = c.dm /\ d.drag = c.drag /\ d.layout = c.layout /\ d.canvas = c.canvas
      /\ d.mouse.dragging = c.mouse.dragging
  BY DEF MoveTo, Beside, RangeInv, ChartInv, ChartFields, MouseFields, NewMouse
<1> HIDE DEF d
<1>2. RangeInv(d)
  BY <1>1, BesideFollows
<1> QED BY <1>1, <1>2 DEF Held, d

LEMMA HoveringKeepsTheRange ==
  ASSUME NEW c, RangeInv(c), NEW p
  PROVE  RangeInv(HoverAt(c, p))
<1> DEFINE u == UpdateHoverStatus(c, p)
           v == SetDirty(u, {"Overlay", "Main"})
<1>1. Beside(c, u)
  BY DEF UpdateHoverStatus, Beside, RangeInv, ChartInv, ChartFields, MouseFields, NewMouse
<1> HIDE DEF u
<1>2. RangeInv(u)
  BY <1>1, BesideFollows
<1>3. Beside(u, v)
  BY <1>2 DEF SetDirty, Beside, RangeInv, ChartInv, ChartFields
<1> HIDE DEF v
<1>4. RangeInv(v)
  BY <1>2, <1>3, BesideFollows
<1>5. HoverAt(c, p) \in {Render(u), Render(v)}
  BY DEF HoverAt, u, v
<1> QED BY <1>2, <1>4, <1>5, RenderKeepsTheRange

LEMMA ReleasingKeepsTheRange ==
  ASSUME NEW c, RangeInv(c)
  PROVE  RangeInv(Release(c))
<1> DEFINE w == [c EXCEPT !.mouse.dragging = FALSE, !.mouse.handle = "none",
                          !.drag.dragging = FALSE, !.drag.handle = "none"]
<1>1. Release(c) \in {c, HandleLayoutChange(w)}
  BY DEF Release
<1>2. /\ DOMAIN w = ChartFields /\ w.dm = c.dm /\ w.mode = c.mode /\ w.canvas = c.canvas /\ w.layout = c.layout
      /\ DOMAIN w.mouse = MouseFields /\ DOMAIN w.drag = DragFields /\ w.mouse.dragging = FALSE
  BY DEF RangeInv, ChartInv, ChartFields, MouseFields, DragFields, NewMouse, NewDrag
<1> HIDE DEF w
<1>3. RangeInv(w)
  BY <1>2 DEF RangeInv, ChartInv, Sized
<1> QED BY <1>1, <1>3, LayoutChangeKeepsTheRange

LEMMA LeavingKeepsTheRange ==
  ASSUME NEW c, RangeInv(c)
  PROVE  RangeInv(Leave(c))
<1> DEFINE w(i) == [c EXCEPT
      !.mouse = [@ EXCEPT !.inChart = FALSE, !.inNav = FALSE, !.hover = i, !.last = i, !.dragging = FALSE],
      !.dirty = IF c.mouse.dragging THEN Layers ELSE @ \union {"Overlay", "Main"}]
<1>1. \E i : Leave(c) = Render(w(i))
  BY DEF Leave
<1>2. PICK i : Leave(c) = Render(w(i))
  BY <1>1
<1>3. Beside(c, w(i))
  BY DEF Beside, RangeInv, ChartInv, ChartFields, MouseFields, NewMouse
<1> HIDE DEF w
<1>4. RangeInv(w(i))
  BY <1>3, BesideFollows
<1> QED BY <1>2, <1>4, RenderKeepsTheRange

\* Candles come, and the range goes on.
LEMMA CandlesKeepTheRange ==
  ASSUME NEW c, RangeInv(c), NEW e, DataInv(e), NEW some \in Nat, Grown(c.dm, e, some),
         Len(c.dm.incr) + some <= MaxIncr
  PROVE  RangeInv([c EXCEPT !.dm = e])
<1> DEFINE d == [c EXCEPT !.dm = e]
<1>1. /\ Len(c.dm.incr) \in Nat /\ Len(e.incr) \in Nat /\ Len(c.dm.hist) \in Nat
      /\ Length(c.dm) = Len(c.dm.hist) + Len(c.dm.incr) /\ Length(e) = Len(c.dm.hist) + Len(e.incr)
  BY Lengths DEF RangeInv, ChartInv, DataInv, Grown, Length
<1>2. Len(c.dm.incr) <= Len(e.incr) /\ Len(e.incr) <= Len(c.dm.incr) + some
  BY DEF Grown
<1>3. MaxIncr \in Nat
  BY ChartAssumption
<1>4. Length(c.dm) <= Length(e) /\ Len(e.incr) <= MaxIncr
  <2>1. \A h, i, j \in Nat : i <= j => h + i <= h + j
    OBVIOUS
  <2>2. \A i, j, k, m \in Nat : i + k <= m /\ j <= i + k => j <= m
    OBVIOUS
  <2> QED BY <1>1, <1>2, <1>3, <2>1, <2>2
<1>5. Ranged(e) /\ e.hist = c.dm.hist
  BY DEF Grown, RangeInv
<1>6. /\ DOMAIN d = ChartFields /\ d.dm = e /\ d.mouse = c.mouse /\ d.drag = c.drag /\ d.mode = c.mode
      /\ d.canvas = c.canvas /\ d.layout = c.layout
  BY DEF RangeInv, ChartInv, ChartFields
<1> HIDE DEF d
<1>7. Follows(c, d)
  BY <1>4, <1>5, <1>6 DEF Follows, RangeInv, ChartInv, Sized
<1> QED BY <1>7, FollowingKeepsTheRange DEF d

\* The range begun anew from the layout.
LEMMA BeginningKeepsTheRange ==
  ASSUME NEW c, RangeInv(c)
  PROVE  RangeInv([c EXCEPT !.dm = InitializeVisibleRange(c.dm, c.layout)])
<1>1. Density(Length(c.dm)) \in Nat \ {0}
  <2>1. /\ Len(c.dm.hist) \in Nat /\ Len(c.dm.incr) \in Nat /\ Length(c.dm) = Len(c.dm.hist) + Len(c.dm.incr)
        /\ MaxIncr \in Nat
    BY Lengths, ChartAssumption DEF RangeInv, ChartInv, DataInv
  <2>2. Len(c.dm.incr) <= MaxIncr /\ c.dm.hist \in Histories
    BY DEF RangeInv
  <2>3. \A h, i, m \in Nat : i <= m => h + i \in 0 .. (h + m)
    OBVIOUS
  <2>4. Length(c.dm) \in 0 .. (Len(c.dm.hist) + MaxIncr)
    BY <2>1, <2>2, <2>3
  <2> QED BY <2>2, <2>4, DensityAssumption
<1>2. IsRect(RectOf(c.layout, "HeatmapArea"))
  BY RectsOfLayouts DEF RangeInv, Sized
<1>3. SameCandles(c.dm, InitializeVisibleRange(c.dm, c.layout)) /\ Ranged(InitializeVisibleRange(c.dm, c.layout))
  BY <1>1, <1>2, FirstRangesStayWithin DEF RangeInv, ChartInv
<1> QED BY <1>3, OtherRange

LEMMA RecalculationKeepsTheRange ==
  ASSUME NEW c, RangeInv(c)
  PROVE  RangeInv(FullRecalculate(c))
<1> DEFINE u == UpdateLayout(c)
           e == InitializeVisibleRange(u.dm, u.layout)
           w == [u EXCEPT !.dm = e]
           v == UpdateLayout(w)
           x == [v EXCEPT !.dm = CalculateDataRanges(v.dm)]
<1>1. FullRecalculate(c) \in {c, u, x}
  BY Zenon DEF FullRecalculate
<1>2. RangeInv(u)
  BY LayoutKeepsTheRange
<1> HIDE DEF u
<1>3. RangeInv(w)
  BY <1>2, BeginningKeepsTheRange
<1> HIDE DEF w
<1>4. RangeInv(v)
  BY <1>3, LayoutKeepsTheRange
<1> HIDE DEF v
<1>5. RangeInv(x)
  <2>1. SameCandles(v.dm, CalculateDataRanges(v.dm)) /\ Ranged(CalculateDataRanges(v.dm))
    BY <1>4, RangesOfDataStay DEF RangeInv, ChartInv
  <2> QED BY <1>4, <2>1, OtherRange
<1> QED BY <1>1, <1>2, <1>5

LEMMA SizesKeepTheRange ==
  ASSUME NEW c, RangeInv(c), NEW size \in Resizes, NEW d,
         DOMAIN d = ChartFields, d.dm = c.dm, d.drag = c.drag, d.mode = c.mode, d.mouse = c.mouse,
         d.layout = c.layout, d.canvas = size
  PROVE  RangeInv(d)
<1>1. Length(c.dm) <= Length(d.dm)
  BY LengthsAreAlike DEF RangeInv, ChartInv, SameCandles
<1>2. Follows(c, d)
  BY <1>1 DEF Follows, RangeInv, ChartInv, Sized, Canvases
<1> QED BY <1>2, FollowingKeepsTheRange

LEMMA CanvasesKeepTheRange ==
  ASSUME NEW c, RangeInv(c), NEW size \in Resizes
  PROVE  LET d == [c EXCEPT !.canvas = size] IN
         RangeInv(d) /\ RangeInv(Render(FullRecalculate(OnCanvases(d, NewCanvasManager))))
<1> DEFINE d == [c EXCEPT !.canvas = size]
           w == OnCanvases(d, NewCanvasManager)
<1>1. RangeInv(d)
  <2>1. /\ DOMAIN d = ChartFields /\ d.dm = c.dm /\ d.drag = c.drag /\ d.mode = c.mode /\ d.mouse = c.mouse
        /\ d.layout = c.layout /\ d.canvas = size
    BY DEF RangeInv, ChartInv, ChartFields
  <2> HIDE DEF d
  <2> QED BY <2>1, SizesKeepTheRange
<1> HIDE DEF d
<1>2. Beside(d, w)
  BY <1>1 DEF OnCanvases, Beside, RangeInv, ChartInv, ChartFields
<1> HIDE DEF w
<1>3. RangeInv(w)
  BY <1>1, <1>2, BesideFollows
<1>4. RangeInv(FullRecalculate(w))
  BY <1>3, RecalculationKeepsTheRange
<1>5. RangeInv(Render(FullRecalculate(w)))
  BY <1>4, RenderKeepsTheRange
<1> QED BY <1>1, <1>5 DEF d, w

LEMMA ResizesKeepTheRange ==
  ASSUME NEW c, RangeInv(c), NEW size \in Resizes, NEW b
  PROVE  LET u == UpdateLayout([c EXCEPT !.canvas = size, !.shown["Overlay"] = b])
         IN RangeInv(HandleLayoutChange([u EXCEPT !.dm = InitializeVisibleRange(@, u.layout)]))
<1> DEFINE w == [c EXCEPT !.canvas = size, !.shown["Overlay"] = b]
           u == UpdateLayout(w)
           e == [u EXCEPT !.dm = InitializeVisibleRange(u.dm, u.layout)]
<1>1. /\ DOMAIN w = ChartFields /\ w.dm = c.dm /\ w.drag = c.drag /\ w.mode = c.mode /\ w.mouse = c.mouse
      /\ w.layout = c.layout /\ w.canvas = size
  BY DEF RangeInv, ChartInv, ChartFields
<1> HIDE DEF w
<1>2. RangeInv(w)
  BY <1>1, SizesKeepTheRange
<1>3. RangeInv(u)
  BY <1>2, LayoutKeepsTheRange
<1> HIDE DEF u
<1>4. RangeInv(e)
  BY <1>3, BeginningKeepsTheRange
<1>5. RangeInv(HandleLayoutChange(e))
  <2> HIDE DEF e
  <2> QED BY <1>4, LayoutChangeKeepsTheRange
<1> QED BY <1>5 DEF u, w

LEMMA NavigatorWheelKeepsTheRange ==
  ASSUME NEW c, RangeInv(c), NEW x \in Int, NEW down \in BOOLEAN
  PROVE  LET z == ZoomInNavigator(c, x, down) IN
         RangeInv(Render([c EXCEPT !.dm = UpdateVisibleRange(@, z.start, z.count)]))
<1> DEFINE z == ZoomInNavigator(c, x, down)
           e == UpdateVisibleRange(c.dm, z.start, z.count)
           at == At(x, RectOf(c.layout, "NavigatorContainer"))
           num == IF down THEN 6 ELSE 5
           den == IF down THEN 5 ELSE 6
<1>1. z.start \in Nat /\ z.count \in Int
  <2>1. z = Zoom(c.dm.range, num, den, at[1], at[2])
    BY DEF ZoomInNavigator
  <2>2. num \in Nat /\ den \in Nat \ {0}
    OBVIOUS
  <2>3. at[1] \in Int /\ at[2] \in Nat \ {0}
    BY RectsOfLayouts, PlacesAreFractions DEF RangeInv, Sized
  <2>4. Length(c.dm) \in Nat /\ Within(c.dm.range, Length(c.dm))
    BY Lengths DEF RangeInv, ChartInv, DataInv, Ranged
  <2> HIDE DEF num, den, at, z
  <2> QED BY <2>1, <2>2, <2>3, <2>4, ZoomsAreNatural
<1> HIDE DEF z
<1>2. SameCandles(c.dm, e) /\ Ranged(e)
  BY <1>1, UpdatesStayWithin DEF RangeInv, ChartInv
<1> HIDE DEF e
<1>3. RangeInv([c EXCEPT !.dm = e])
  BY <1>2, OtherRange
<1> QED BY <1>3, RenderKeepsTheRange DEF e, z

LEMMA RangeStep == RangeInv(chart) /\ [ChartNext]_chartVars => RangeInv(chart)'
<1> SUFFICES ASSUME RangeInv(chart), [ChartNext]_chartVars PROVE RangeInv(chart')
  OBVIOUS
<1>1. ASSUME NEW size \in Resizes, NEW given \in BOOLEAN, SetCanvases(size, given) PROVE RangeInv(chart')
  BY <1>1, CanvasesKeepTheRange DEF SetCanvases, Ends
<1>2. ASSUME DrawAll PROVE RangeInv(chart')
  BY <1>2, RenderKeepsTheRange DEF DrawAll, Ends
<1>3. ASSUME NEW batch \in Batches, AppendData(batch) \/ MergeData(batch) PROVE RangeInv(chart')
  <2>1. IsList(batch)
    BY CandlesAssumption DEF IsList
  <2>2. Len(batch) \in Nat
    BY <2>1, Lists
  <2>3. PICK e \in {AppendItems(chart.dm, batch), MergeItems(chart.dm, batch)} :
          chart' \in {[chart EXCEPT !.dm = e], HandleLayoutChange([chart EXCEPT !.dm = e])}
    BY <1>3, Zenon DEF AppendData, MergeData, Ends
  <2>4. DataInv(e) /\ Grown(chart.dm, e, Len(batch))
    BY <2>1, MoreCandles, MergedCandles DEF RangeInv, ChartInv
  <2>5. Len(chart.dm.incr) + Len(batch) <= MaxIncr
    BY <1>3 DEF AppendData, MergeData
  <2>6. RangeInv([chart EXCEPT !.dm = e])
    BY <2>2, <2>4, <2>5, CandlesKeepTheRange
  <2> QED BY <2>3, <2>6, LayoutChangeKeepsTheRange
<1>4. ASSUME NEW p \in Points, MouseMove(p) PROVE RangeInv(chart')
  <2> DEFINE c == MoveTo(chart, p)
  <2>1. RangeInv(c) /\ c.mouse.dragging = chart.mouse.dragging
    BY MovingKeepsTheRange
  <2>2. chart' = IF chart.mouse.dragging THEN DragTo(c, p) ELSE HoverAt(c, p)
    BY <1>4 DEF MouseMove, Ends
  <2> HIDE DEF c
  <2>3. CASE chart.mouse.dragging
    <3>1. Held(c)
      BY <2>1, <2>3 DEF RangeInv
    <3> QED BY <2>1, <2>2, <2>3, <3>1, DraggingKeepsTheRange, PointsAssumption
  <2>4. CASE ~chart.mouse.dragging
    BY <2>1, <2>2, <2>4, HoveringKeepsTheRange
  <2> QED BY <2>3, <2>4
<1>5. ASSUME NEW p \in Points, MouseDown(p) PROVE RangeInv(chart')
  BY <1>5, PressingKeepsTheRange, PointsAssumption DEF MouseDown, Ends
<1>6. ASSUME NEW p \in Points, NEW down \in BOOLEAN, NavigatorWheel(p, down) PROVE RangeInv(chart')
  <2> DEFINE c == MoveTo(chart, p)
             z(b) == ZoomInNavigator(b, p.x, down)
             e(b) == UpdateVisibleRange(c.dm, z(b).start, z(b).count)
  <2>1. RangeInv(c) /\ c.dm = chart.dm /\ c.layout = chart.layout
    BY MovingKeepsTheRange
  <2>2. chart' \in {c, Render([c EXCEPT !.dm = e(chart)])}
    BY <1>6, Zenon DEF NavigatorWheel, Ends
  <2> HIDE DEF c
  <2>3. z(c) = z(chart)
    BY <2>1 DEF ZoomInNavigator
  <2>4. RangeInv(Render([c EXCEPT !.dm = e(c)]))
    BY <2>1, NavigatorWheelKeepsTheRange, PointsAssumption
  <2> QED BY <2>1, <2>2, <2>3, <2>4
<1>7. ASSUME NEW p \in Points, NEW down \in BOOLEAN, MainWheel(p, down) PROVE RangeInv(chart')
  <2> DEFINE c == MoveTo(chart, p)
             d == HandleMainWheel(c.dm, p.x, RectOf(c.layout, "HeatmapArea"), down)
  <2>1. RangeInv(c)
    BY MovingKeepsTheRange
  <2>2. chart' \in {c, HandleLayoutChange([c EXCEPT !.dm = d])}
    BY <1>7, Zenon DEF MainWheel, Ends
  <2> HIDE DEF c
  <2>3. IsRect(RectOf(c.layout, "HeatmapArea"))
    BY <2>1, RectsOfLayouts DEF RangeInv, Sized
  <2>4. SameCandles(c.dm, d) /\ Ranged(d)
    BY <2>1, <2>3, MainWheelStaysWithin, PointsAssumption DEF RangeInv, ChartInv
  <2> HIDE DEF d
  <2>5. RangeInv([c EXCEPT !.dm = d])
    BY <2>1, <2>4, OtherRange
  <2> QED BY <2>1, <2>2, <2>5, LayoutChangeKeepsTheRange
<1>8. ASSUME MouseUp \/ MouseLeave PROVE RangeInv(chart')
  BY <1>8, ReleasingKeepsTheRange, LeavingKeepsTheRange DEF MouseUp, MouseLeave, Ends
<1>9. ASSUME NEW m \in Modes, SetRenderMode(m) PROVE RangeInv(chart')
  <2> DEFINE w == [chart EXCEPT !.mode = m]
  <2>1. /\ DOMAIN w = ChartFields /\ w.dm = chart.dm /\ w.drag = chart.drag /\ w.mode = m /\ w.mouse = chart.mouse
        /\ w.layout = chart.layout /\ w.canvas = chart.canvas
    BY DEF RangeInv, ChartInv, ChartFields
  <2>2. chart' \in {chart, HandleLayoutChange(w)}
    BY <1>9 DEF SetRenderMode, Ends
  <2> HIDE DEF w
  <2>3. RangeInv(w)
    BY <2>1 DEF RangeInv, ChartInv, Sized, Held
  <2> QED BY <2>2, <2>3, LayoutChangeKeepsTheRange
<1>10. ASSUME NEW size \in Resizes, HandleCanvasResize(size) PROVE RangeInv(chart')
  <2> DEFINE u(b) == UpdateLayout([chart EXCEPT !.canvas = size, !.shown["Overlay"] = b])
             Left(b) == HandleLayoutChange([u(b) EXCEPT !.dm = InitializeVisibleRange(@, u(b).layout)])
  <2>1. \A b : RangeInv(Left(b))
    BY ResizesKeepTheRange
  <2>2. \E b : chart' = Left(b)
    BY <1>10, Zenon DEF HandleCanvasResize, Ends
  <2> HIDE DEF Left
  <2> QED BY <2>1, <2>2
<1>11. ASSUME NEW config \in Configs, UpdateConfig(config) PROVE RangeInv(chart')
  <2> DEFINE w == [chart EXCEPT !.look = Look(config)]
  <2>1. Beside(chart, w)
    BY DEF Beside, RangeInv, ChartInv, ChartFields
  <2>2. chart' = Render(w)
    BY <1>11 DEF UpdateConfig, Ends
  <2> HIDE DEF w
  <2> QED BY <2>1, <2>2, BesideFollows, RenderKeepsTheRange
<1>12. ASSUME UNCHANGED chartVars PROVE RangeInv(chart')
  BY <1>12 DEF chartVars
<1>13. CASE \E p \in Points, down \in BOOLEAN : NavigatorWheel(p, down) \/ MainWheel(p, down)
  BY <1>6, <1>7, <1>13
<1> QED BY <1>1, <1>2, <1>3, <1>4, <1>5, <1>8, <1>9, <1>10, <1>11, <1>12, <1>13, Zenon DEF ChartNext, RefuseData, Done

LEMMA RangeBegins == ChartInit => RangeInv(chart)
<1> SUFFICES ASSUME NEW hist \in Histories, chart = NewChart(hist), ChartInit PROVE RangeInv(chart)
  BY DEF ChartInit
<1>1. /\ chart.dm = SetInitialData(hist) /\ chart.mode = "kmap" /\ chart.canvas = NoCanvas /\ chart.layout = EmptyLayout
      /\ chart.mouse = NewMouse /\ chart.drag = NewDrag
  BY DEF NewChart, NewRenderer
<1>2. ChartInv(chart)
  BY ChartBegins
<1>3. Ranged(chart.dm) /\ chart.dm.hist = hist /\ Len(chart.dm.incr) <= MaxIncr
  <2>1. IsList(hist)
    BY CandlesAssumption DEF IsList
  <2>2. Ranged(chart.dm) /\ chart.dm.hist = hist /\ Len(chart.dm.incr) = 0
    BY <1>1, <2>1, FirstDataIsWithin
  <2>3. \A m \in Nat : 0 <= m
    OBVIOUS
  <2> QED BY <2>2, <2>3, ChartAssumption
<1>4. Sized(chart)
  <2>1. chart.canvas \in Canvases /\ chart.layout.canvas = None
    BY <1>1 DEF Canvases, EmptyLayout
  <2>2. None \notin Resizes
    BY ChartAssumption, LayoutAssumption
  <2> QED BY <2>1, <2>2 DEF Sized, Placed
<1>5. chart.mouse.dragging = FALSE /\ DOMAIN chart.mouse = MouseFields /\ DOMAIN chart.drag = DragFields
  BY <1>1 DEF NewMouse, NewDrag, MouseFields, DragFields
<1>6. chart.mode \in Modes
  BY <1>1, LayoutAssumption DEF Modes
<1> QED BY <1>2, <1>3, <1>4, <1>5, <1>6 DEF RangeInv

(* What is visible are candles there are, and at least one of them: every  *)
(* method makes its range anew for as many candles as there are, and a     *)
(* zoom, a drag and the first range ask it for natural numbers, for no     *)
(* canvas leaves the navigator without width, by which a drag divides      *)
(* (data_manager.rs: every method that moves the range or adds candles).   *)
THEOREM RangeAlwaysWithin == ChartSpec => []RangeWithinData
<1>1. RangeInv(chart) => RangeWithinData
  BY DEF RangeInv, Ranged, Within, RangeWithinData, RangeIsWithin
<1> QED BY <1>1, RangeBegins, RangeStep, PTL DEF ChartSpec

(* While an edge of the range is dragged the other edge stays, while the   *)
(* range is dragged it keeps its width, and no fewer candles are left than *)
(* MinVisible where there were as many at first: a drag goes on from the   *)
(* range at which it began, and that lies within the candles whatever came *)
(* since, for none are ever taken away (datazoom_renderer.rs:129-186).     *)
THEOREM DragsKeepTheOtherEdge == ChartSpec => DragKeepsTheOtherEdge
<1> DEFINE Kept(p) ==
             LET g == chart.drag  r == chart'.dm.range IN
             /\ g.handle = "left" => r.end = g.start + g.count
             /\ g.handle = "right" => r.start = g.start
             /\ g.handle = "middle" => r.count = g.count
             /\ r.count >= MinVisible
           Keeps == chart.mouse.dragging /\ chart.drag.count >= MinVisible => \A p \in Points : MouseMove(p) => Kept(p)
<1>1. RangeInv(chart) /\ HandleInv(chart) => Keeps
  <2> SUFFICES ASSUME RangeInv(chart), HandleInv(chart), chart.mouse.dragging, chart.drag.count >= MinVisible,
                      NEW p \in Points, MouseMove(p)
               PROVE  Kept(p)
    OBVIOUS
  <2> DEFINE c == MoveTo(chart, p)
  <2>1. RangeInv(c) /\ Held(c) /\ c.drag = chart.drag
    BY MovingKeepsTheRange DEF RangeInv
  <2>2. chart' = DragTo(c, p)
    BY DEF MouseMove, Ends
  <2>3. chart.drag.handle # "none"
    BY DEF HandleInv
  <2> HIDE DEF c
  <2>4. DragKept(chart.drag, chart'.dm.range)
    BY <2>1, <2>2, <2>3, DraggingKeepsTheRange, PointsAssumption
  <2> QED BY <2>4 DEF DragKept
<1>2. RangeInv(chart) /\ HandleInv(chart) => [Keeps]_chartVars
  BY <1>1
<1> QED BY <1>2, RangeBegins, RangeStep, HandleInit, HandleStep, PTL DEF ChartSpec, DragKeepsTheOtherEdge
=============================================================================
