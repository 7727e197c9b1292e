------------------------- MODULE RateLimiterProofs --------------------------
(***************************************************************************)
(* Proofs about the sliding-window limiter, for any clients and limits and *)
(* any number of calls.                                                    *)
(***************************************************************************)
EXTENDS RateLimiter, FiniteSetTheorems, TLAPS

\* A call holds an instant at most MaxDelay old until it is decided.
Dated ==
  \A c \in Calls :
    /\ pc[c] \in Waiting => now[c] <= clock /\ clock <= now[c] + MaxDelay
    /\ pc[c] = "admitted" =>
         now[c] <= at[c] /\ at[c] <= now[c] + MaxDelay /\ at[c] <= clock

\* Only admitted calls are recorded, under their own key.
Recorded == \A k \in Keys : history[k] \subseteq Admitted(k)

\* An admission cannot be forgotten before Window - MaxDelay have passed.
Kept ==
  \A k \in Keys : \A c \in Admitted(k) :
    clock < at[c] + (Window - MaxDelay) => c \in history[k]

IInv ==
  /\ TypeOK
  /\ Dated
  /\ Recorded
  /\ Kept
  /\ WindowBound
  /\ RefusalsJustified

LEMMA InitIInv == Init => IInv
<1> SUFFICES ASSUME Init PROVE IInv
  OBVIOUS
<1> USE LimiterAssumption
<1>1. TypeOK
  BY DEF Init, TypeOK
<1>2. \A k \in Keys : Admitted(k) = {}
  BY DEF Init, Admitted
<1>3. Dated /\ Recorded /\ Kept /\ RefusalsJustified
  BY <1>2 DEF Init, Dated, Recorded, Kept, RefusalsJustified, Waiting
<1>4. WindowBound
  <2> SUFFICES ASSUME NEW k \in Keys, NEW t \in 0..MaxTime
               PROVE  Cardinality(AdmittedDuring(k, t, Window - MaxDelay)) <= MaxRequests
    BY DEF WindowBound
  <2>1. AdmittedDuring(k, t, Window - MaxDelay) = {}
    BY <1>2 DEF AdmittedDuring
  <2> QED BY <2>1, FS_EmptySet
<1> QED BY <1>1, <1>3, <1>4 DEF IInv

\* Sets of calls are finite, so their cardinalities can be compared.
LEMMA CallsCounted ==
  ASSUME NEW T \in SUBSET Calls, NEW S \in SUBSET T
  PROVE  /\ IsFiniteSet(S) /\ IsFiniteSet(T)
         /\ Cardinality(S) \in Nat /\ Cardinality(T) \in Nat
         /\ Cardinality(S) <= Cardinality(T)
<1>1. IsFiniteSet(T)
  BY LimiterAssumption, FS_Subset
<1> QED BY <1>1, FS_Subset, FS_CardinalityType

LEMMA OneMoreCall ==
  ASSUME NEW T \in SUBSET Calls, NEW S \in SUBSET T, NEW c,
         Cardinality(T) < MaxRequests
  PROVE  Cardinality(S \cup {c}) <= MaxRequests
<1>1. /\ IsFiniteSet(S) /\ Cardinality(S) \in Nat /\ Cardinality(T) \in Nat
      /\ Cardinality(S) <= Cardinality(T)
  BY CallsCounted
<1>2. CASE c \in S
  <2>1. S \cup {c} = S
    BY <1>2
  <2> QED BY <2>1, <1>1, LimiterAssumption
<1>3. CASE c \notin S
  <2>1. Cardinality(S \cup {c}) = Cardinality(S) + 1
    BY <1>1, <1>3, FS_AddElement
  <2> QED BY <2>1, <1>1, LimiterAssumption
<1> QED BY <1>2, <1>3

\* A step that admits nobody and drops only instants that have expired.
LEMMA NobodyAdmitted ==
  ASSUME IInv, TypeOK', key' = key, clock' \in Nat, clock <= clock',
         \A c \in Calls : pc'[c] = "admitted" <=> pc[c] = "admitted",
         \A c \in Calls : pc[c] = "admitted" => at'[c] = at[c] /\ now'[c] = now[c],
         \A k \in Keys : history'[k] \subseteq history[k],
         \A k \in Keys : \A c \in history[k] \ history'[k] : now[c] + Window <= clock'
  PROVE  /\ \A k \in Keys : Admitted(k)' = Admitted(k)
         /\ Recorded' /\ Kept' /\ WindowBound'
<1> USE LimiterAssumption
<1>1. \A k \in Keys : Admitted(k)' = Admitted(k)
  BY DEF Admitted
<1>2. Recorded'
  BY <1>1 DEF IInv, Recorded
<1>3. Kept'
  <2> SUFFICES ASSUME NEW k \in Keys, NEW c \in Admitted(k)',
                      clock' < at'[c] + (Window - MaxDelay)
               PROVE  c \in history'[k]
    BY DEF Kept
  <2>1. c \in Calls /\ c \in Admitted(k) /\ pc[c] = "admitted" /\ at'[c] = at[c]
    BY <1>1 DEF Admitted
  <2>2. /\ at[c] \in Nat /\ now[c] \in Nat /\ clock \in Nat
        /\ at[c] <= now[c] + MaxDelay
    BY <2>1 DEF IInv, TypeOK, Dated
  <2>3. c \in history[k]
    BY <2>1, <2>2 DEF IInv, Kept
  <2> QED BY <2>1, <2>2, <2>3
<1>4. WindowBound'
  <2> SUFFICES ASSUME NEW k \in Keys, NEW t \in 0..MaxTime
               PROVE  Cardinality(AdmittedDuring(k, t, Window - MaxDelay))' <= MaxRequests
    BY DEF WindowBound
  <2>1. AdmittedDuring(k, t, Window - MaxDelay)' = AdmittedDuring(k, t, Window - MaxDelay)
    BY <1>1 DEF AdmittedDuring, Admitted
  <2> QED BY <2>1 DEF IInv, WindowBound
<1> QED BY <1>1, <1>2, <1>3, <1>4

\* A refusal stays justified: its evidence can only grow.
LEMMA RefusalsStay ==
  ASSUME IInv, key' = key,
         NEW c \in Calls, pc[c] = "refused", at'[c] = at[c], now'[c] = now[c],
         \A d \in Calls : pc[d] = "admitted" => pc'[d] = "admitted" /\ at'[d] = at[d]
  PROVE  Cardinality({d \in Admitted(key[c]) : at[d] <= at[c] /\ now[c] < at[d] + Window})'
           >= MaxRequests
<1> DEFINE evidence == {d \in Admitted(key[c]) : at[d] <= at[c] /\ now[c] < at[d] + Window}
<1>1. Cardinality(evidence) >= MaxRequests
  BY DEF IInv, RefusalsJustified
<1>2. evidence \subseteq evidence' /\ evidence' \subseteq Calls
  BY DEF Admitted
<1>3. Cardinality(evidence) <= Cardinality(evidence') /\ Cardinality(evidence) \in Nat
      /\ Cardinality(evidence') \in Nat
  BY <1>2, CallsCounted
<1> QED BY <1>1, <1>3, LimiterAssumption

\* What a call finds fresh in its key's history when it is its turn.
LEMMA FreshCalls ==
  ASSUME IInv, NEW k \in Keys, NEW c \in Calls, pc[c] \in Waiting
  PROVE  /\ Fresh(k, now[c]) \subseteq history[k]
         /\ Fresh(k, now[c]) \subseteq Admitted(k)
         /\ \A d \in history[k] \ Fresh(k, now[c]) : now[d] + Window <= clock
         /\ \A d \in Admitted(k) :
              clock < at[d] + (Window - MaxDelay) => d \in Fresh(k, now[c])
<1> USE LimiterAssumption
<1>1. Fresh(k, now[c]) \subseteq history[k] /\ history[k] \subseteq Admitted(k)
  BY DEF Fresh, IInv, Recorded
<1>2. now[c] \in Nat /\ clock \in Nat /\ now[c] <= clock
  BY DEF IInv, TypeOK, Dated
<1>3. \A d \in Admitted(k) :
        now[d] \in Nat /\ at[d] \in Nat /\ at[d] <= now[d] + MaxDelay
  BY DEF Admitted, IInv, TypeOK, Dated
<1>4. \A d \in history[k] \ Fresh(k, now[c]) : now[d] + Window <= clock
  BY <1>1, <1>2, <1>3 DEF Fresh
<1>5. \A d \in Admitted(k) :
        clock < at[d] + (Window - MaxDelay) => d \in Fresh(k, now[c])
  BY <1>1, <1>2, <1>3 DEF Fresh, IInv, Kept
<1> QED BY <1>1, <1>4, <1>5

LEMMA TypeStep == TypeOK /\ Dated /\ [Next]_vars => TypeOK' /\ Dated'
<1> SUFFICES ASSUME TypeOK, Dated, [Next]_vars PROVE TypeOK' /\ Dated'
  OBVIOUS
<1> USE LimiterAssumption
<1>1. CASE Tick
  BY <1>1 DEF Tick, TypeOK, Dated
<1>2. ASSUME NEW c \in Calls, Arrive(c) PROVE TypeOK' /\ Dated'
  BY <1>2 DEF Arrive, ReadClock, TypeOK, Dated, Waiting
<1>3. ASSUME NEW c \in Calls, Admit(c) PROVE TypeOK' /\ Dated'
  BY <1>3 DEF Admit, Decide, Fresh, TypeOK, Dated, Waiting
<1>4. ASSUME NEW c \in Calls, Refuse(c) PROVE TypeOK' /\ Dated'
  BY <1>4 DEF Refuse, Decide, Fresh, TypeOK, Dated, Waiting
<1>5. ASSUME NEW c \in Calls, CountRemaining(c) PROVE TypeOK' /\ Dated'
  BY <1>5 DEF CountRemaining, ReadClock, Fresh, TypeOK, Dated, Waiting
<1>6. ASSUME NEW c \in Calls, Cleanup(c) PROVE TypeOK' /\ Dated'
  <2>1. TypeOK'
    BY <1>6 DEF Cleanup, Fresh, TypeOK, Waiting
  <2>2. Dated'
    BY <1>6 DEF Cleanup, TypeOK, Dated, Waiting
  <2> QED BY <2>1, <2>2
<1>7. CASE UNCHANGED vars
  BY <1>7 DEF vars, TypeOK, Dated
<1> QED BY <1>1, <1>2, <1>3, <1>4, <1>5, <1>6, <1>7 DEF Next

LEMMA AdmitStep ==
  ASSUME IInv, TypeOK', NEW c \in Calls, Admit(c)
  PROVE  Recorded' /\ Kept' /\ WindowBound' /\ RefusalsJustified'
<1> USE LimiterAssumption
<1> DEFINE kept == Fresh(key[c], now[c])
<1>1. /\ pc[c] = "check" /\ Cardinality(kept) < MaxRequests
      /\ pc' = [pc EXCEPT ![c] = "admitted"] /\ at' = [at EXCEPT ![c] = clock]
      /\ history' = [history EXCEPT ![key[c]] = kept \cup {c}]
      /\ clock' = clock /\ key' = key /\ now' = now
  BY DEF Admit, Decide
<1>2. /\ key[c] \in Keys /\ clock \in Nat
      /\ \A d \in Calls : at[d] \in Nat /\ now[d] \in Nat
  BY <1>1 DEF IInv, TypeOK, Waiting
<1>3. /\ kept \subseteq history[key[c]] /\ kept \subseteq Admitted(key[c])
      /\ \A d \in Admitted(key[c]) :
           clock < at[d] + (Window - MaxDelay) => d \in kept
  BY <1>1, <1>2, FreshCalls DEF Waiting
<1>4. /\ \A k \in Keys : Admitted(k)' = IF k = key[c] THEN Admitted(k) \cup {c} ELSE Admitted(k)
      /\ \A k \in Keys : c \notin Admitted(k)
      /\ \A k \in Keys : \A d \in Admitted(k) : at'[d] = at[d]
  BY <1>1 DEF Admitted, IInv, TypeOK
<1>5. Recorded'
  BY <1>1, <1>2, <1>3, <1>4 DEF IInv, Recorded, TypeOK
<1>6. Kept'
  <2> SUFFICES ASSUME NEW k \in Keys, NEW d \in Admitted(k)',
                      clock < at'[d] + (Window - MaxDelay)
               PROVE  d \in history'[k]
    BY <1>1 DEF Kept
  <2>1. CASE k = key[c]
    <3>1. history'[k] = kept \cup {c}
      BY <1>1, <1>2, <2>1 DEF IInv, TypeOK
    <3> QED BY <3>1, <2>1, <1>3, <1>4
  <2>2. CASE k # key[c]
    <3>1. history'[k] = history[k] /\ d \in Admitted(k) /\ at'[d] = at[d]
      BY <1>1, <1>2, <1>4, <2>2 DEF IInv, TypeOK
    <3> QED BY <3>1 DEF IInv, Kept
  <2> QED BY <2>1, <2>2
<1>7. WindowBound'
  <2> SUFFICES ASSUME NEW k \in Keys, NEW t \in 0..MaxTime
               PROVE  Cardinality(AdmittedDuring(k, t, Window - MaxDelay)') <= MaxRequests
    BY DEF WindowBound
  <2> DEFINE during == AdmittedDuring(k, t, Window - MaxDelay)
  <2>1. CASE k = key[c] /\ t <= clock /\ clock < t + (Window - MaxDelay)
    <3>1. during' = during \cup {c}
      BY <1>1, <1>4, <2>1 DEF AdmittedDuring, Admitted, IInv, TypeOK
    <3>2. during \subseteq kept
      <4> SUFFICES ASSUME NEW d \in during PROVE d \in kept
        OBVIOUS
      <4>1. d \in Admitted(key[c]) /\ t <= at[d] /\ d \in Calls
        BY <2>1 DEF AdmittedDuring, Admitted
      <4> QED BY <4>1, <1>2, <1>3, <2>1
    <3>3. kept \subseteq Calls
      BY <1>3 DEF Admitted
    <3> QED BY <1>1, <3>1, <3>2, <3>3, OneMoreCall
  <2>2. CASE ~(k = key[c] /\ t <= clock /\ clock < t + (Window - MaxDelay))
    <3>1. during' = during
      BY <1>1, <1>2, <1>4, <2>2 DEF AdmittedDuring, Admitted, IInv, TypeOK
    <3> QED BY <3>1 DEF IInv, WindowBound
  <2> QED BY <2>1, <2>2
<1>8. RefusalsJustified'
  <2> SUFFICES ASSUME NEW r \in Calls, pc'[r] = "refused"
               PROVE  Cardinality({d \in Admitted(key[r]) : at[d] <= at[r] /\ now[r] < at[d] + Window})'
                        >= MaxRequests
    BY DEF RefusalsJustified
  <2>1. r # c /\ pc[r] = "refused" /\ at'[r] = at[r] /\ now'[r] = now[r]
    BY <1>1 DEF IInv, TypeOK
  <2>2. \A d \in Calls : pc[d] = "admitted" => pc'[d] = "admitted" /\ at'[d] = at[d]
    BY <1>1 DEF IInv, TypeOK
  <2> QED BY <2>1, <2>2, <1>1, RefusalsStay
<1> QED BY <1>5, <1>6, <1>7, <1>8

LEMMA OtherSteps ==
  ASSUME IInv, TypeOK', [Next]_vars, \A c \in Calls : ~Admit(c)
  PROVE  Recorded' /\ Kept' /\ WindowBound' /\ RefusalsJustified'
<1> USE LimiterAssumption
<1>1. CASE Tick \/ UNCHANGED vars
  <2>1. /\ key' = key /\ clock' \in Nat /\ clock <= clock'
        /\ pc' = pc /\ at' = at /\ now' = now /\ history' = history
    BY <1>1 DEF Tick, vars, IInv, TypeOK
  <2>2. Recorded' /\ Kept' /\ WindowBound'
    BY <2>1, NobodyAdmitted
  <2>3. RefusalsJustified'
    BY <2>1 DEF IInv, RefusalsJustified, Admitted
  <2> QED BY <2>2, <2>3
<1>2. ASSUME NEW c \in Calls, pc[c] # "admitted", pc'[c] \notin {"admitted", "refused"},
             \A d \in Calls \ {c} : pc'[d] = pc[d] /\ now'[d] = now[d],
             key' = key, clock' = clock, at' = at,
             \A k \in Keys : history'[k] \subseteq history[k],
             \A k \in Keys : \A d \in history[k] \ history'[k] : now[d] + Window <= clock
      PROVE  Recorded' /\ Kept' /\ WindowBound' /\ RefusalsJustified'
  <2>1. /\ clock \in Nat
        /\ \A d \in Calls : pc'[d] = "admitted" <=> pc[d] = "admitted"
        /\ \A d \in Calls : pc[d] = "admitted" => at'[d] = at[d] /\ now'[d] = now[d]
    BY <1>2 DEF IInv, TypeOK
  <2>2. Recorded' /\ Kept' /\ WindowBound'
    BY <1>2, <2>1, NobodyAdmitted
  <2>3. \A r \in Calls : pc'[r] = "refused" => r # c /\ pc[r] = "refused" /\ now'[r] = now[r]
    BY <1>2 DEF IInv, TypeOK
  <2>4. RefusalsJustified'
    <3> SUFFICES ASSUME NEW r \in Calls, pc'[r] = "refused"
                 PROVE  Cardinality({d \in Admitted(key[r]) : at[d] <= at[r] /\ now[r] < at[d] + Window})'
                          >= MaxRequests
      BY DEF RefusalsJustified
    <3> QED BY <1>2, <2>1, <2>3, RefusalsStay
  <2> QED BY <2>2, <2>4
<1>3. ASSUME NEW c \in Calls, Arrive(c)
      PROVE  Recorded' /\ Kept' /\ WindowBound' /\ RefusalsJustified'
  <2>1. /\ pc[c] = "start" /\ pc'[c] \in {"check", "cleanup"}
        /\ \A d \in Calls \ {c} : pc'[d] = pc[d] /\ now'[d] = now[d]
        /\ key' = key /\ clock' = clock /\ at' = at /\ history' = history
    BY <1>3 DEF Arrive, ReadClock, IInv, TypeOK
  <2> QED BY <2>1, <1>2
<1>4. ASSUME NEW c \in Calls, Refuse(c)
      PROVE  Recorded' /\ Kept' /\ WindowBound' /\ RefusalsJustified'
  <2> DEFINE kept == Fresh(key[c], now[c])
  <2>1. /\ pc[c] = "check" /\ Cardinality(kept) >= MaxRequests
        /\ pc' = [pc EXCEPT ![c] = "refused"] /\ at' = [at EXCEPT ![c] = clock]
        /\ history' = [history EXCEPT ![key[c]] = kept]
        /\ clock' = clock /\ key' = key /\ now' = now
    BY <1>4 DEF Refuse, Decide
  <2>2. /\ key[c] \in Keys /\ clock \in Nat
        /\ \A d \in Calls : pc'[d] = "admitted" <=> pc[d] = "admitted"
        /\ \A d \in Calls : pc[d] = "admitted" => at'[d] = at[d]
    BY <2>1 DEF IInv, TypeOK
  <2>3. /\ kept \subseteq history[key[c]] /\ kept \subseteq Admitted(key[c])
        /\ \A d \in history[key[c]] \ kept : now[d] + Window <= clock
    BY <2>1, <2>2, FreshCalls DEF Waiting
  <2>4. /\ \A k \in Keys : history'[k] \subseteq history[k]
        /\ \A k \in Keys : \A d \in history[k] \ history'[k] : now[d] + Window <= clock
    BY <2>1, <2>2, <2>3 DEF IInv, TypeOK
  <2>5. /\ \A k \in Keys : Admitted(k)' = Admitted(k)
        /\ Recorded' /\ Kept' /\ WindowBound'
    BY <2>1, <2>2, <2>4, NobodyAdmitted
  <2>6. RefusalsJustified'
    <3> SUFFICES ASSUME NEW r \in Calls, pc'[r] = "refused"
                 PROVE  Cardinality({d \in Admitted(key[r]) : at[d] <= at[r] /\ now[r] < at[d] + Window})'
                          >= MaxRequests
      BY DEF RefusalsJustified
    <3>1. CASE r = c
      <4> DEFINE evidence == {d \in Admitted(key[c]) : at[d] <= at[c] /\ now[c] < at[d] + Window}
      <4>1. evidence' \subseteq Calls
        BY DEF Admitted
      <4>2. kept \subseteq evidence'
        <5> SUFFICES ASSUME NEW d \in kept PROVE d \in evidence'
          OBVIOUS
        <5>1. d \in Calls /\ d \in Admitted(key[c]) /\ pc[d] = "admitted" /\ now[c] < now[d] + Window
          BY <2>3 DEF Admitted, Fresh
        <5>2. /\ now[d] \in Nat /\ at[d] \in Nat /\ now[c] \in Nat
              /\ now[d] <= at[d] /\ at[d] <= clock
          BY <5>1 DEF IInv, TypeOK, Dated
        <5>3. d \in Admitted(key[c])' /\ at'[d] = at[d] /\ at'[c] = clock /\ now' = now
          BY <5>1, <2>1, <2>2, <2>5 DEF IInv, TypeOK
        <5> QED BY <5>1, <5>2, <5>3, <2>1
      <4>3. Cardinality(kept) <= Cardinality(evidence') /\ Cardinality(kept) \in Nat
            /\ Cardinality(evidence') \in Nat
        BY <4>1, <4>2, CallsCounted
      <4> QED BY <4>3, <3>1, <2>1
    <3>2. CASE r # c
      <4>1. pc[r] = "refused" /\ at'[r] = at[r] /\ now'[r] = now[r]
        BY <2>1, <3>2 DEF IInv, TypeOK
      <4> QED BY <4>1, <2>1, <2>2, RefusalsStay
    <3> QED BY <3>1, <3>2
  <2> QED BY <2>5, <2>6
<1>5. ASSUME NEW c \in Calls, CountRemaining(c)
      PROVE  Recorded' /\ Kept' /\ WindowBound' /\ RefusalsJustified'
  <2>1. CASE ReadClock(c, "refused", "count")
    <3>1. /\ pc[c] = "refused" /\ pc'[c] = "count"
          /\ \A d \in Calls \ {c} : pc'[d] = pc[d] /\ now'[d] = now[d]
          /\ key' = key /\ clock' = clock /\ at' = at /\ history' = history
      BY <2>1 DEF ReadClock, IInv, TypeOK
    <3> QED BY <3>1, <1>2
  <2>2. CASE ~ReadClock(c, "refused", "count")
    <3>1. /\ pc[c] = "count" /\ pc' = [pc EXCEPT ![c] = "counted"]
          /\ history' = [history EXCEPT ![key[c]] = Fresh(key[c], now[c])]
          /\ clock' = clock /\ key' = key /\ now' = now /\ at' = at
          /\ key[c] \in Keys
      BY <1>5, <2>2 DEF CountRemaining, IInv, TypeOK
    <3>2. /\ Fresh(key[c], now[c]) \subseteq history[key[c]]
          /\ \A d \in history[key[c]] \ Fresh(key[c], now[c]) : now[d] + Window <= clock
      BY <3>1, FreshCalls DEF Waiting
    <3>3. /\ \A k \in Keys : history'[k] \subseteq history[k]
          /\ \A k \in Keys : \A d \in history[k] \ history'[k] : now[d] + Window <= clock
      BY <3>1, <3>2 DEF IInv, TypeOK
    <3>4. pc'[c] = "counted" /\ \A d \in Calls \ {c} : pc'[d] = pc[d] /\ now'[d] = now[d]
      BY <3>1 DEF IInv, TypeOK
    <3> QED BY <3>1, <3>3, <3>4, <1>2
  <2> QED BY <2>1, <2>2
<1>6. ASSUME NEW c \in Calls, Cleanup(c)
      PROVE  Recorded' /\ Kept' /\ WindowBound' /\ RefusalsJustified'
  <2>1. /\ pc[c] = "cleanup" /\ pc' = [pc EXCEPT ![c] = "clean"]
        /\ history' = [k \in Keys |-> Fresh(k, now[c])]
        /\ clock' = clock /\ key' = key /\ now' = now /\ at' = at
    BY <1>6 DEF Cleanup
  <2>2. \A k \in Keys :
          /\ Fresh(k, now[c]) \subseteq history[k]
          /\ \A d \in history[k] \ Fresh(k, now[c]) : now[d] + Window <= clock
    BY <2>1, FreshCalls DEF Waiting
  <2>3. /\ \A k \in Keys : history'[k] \subseteq history[k]
        /\ \A k \in Keys : \A d \in history[k] \ history'[k] : now[d] + Window <= clock
    BY <2>1, <2>2
  <2>4. pc'[c] = "clean" /\ \A d \in Calls \ {c} : pc'[d] = pc[d] /\ now'[d] = now[d]
    BY <2>1 DEF IInv, TypeOK
  <2> QED BY <2>1, <2>3, <2>4, <1>2
<1> QED BY <1>1, <1>3, <1>4, <1>5, <1>6 DEF Next

LEMMA StepIInv == IInv /\ [Next]_vars => IInv'
<1> SUFFICES ASSUME IInv, [Next]_vars PROVE IInv'
  OBVIOUS
<1>1. TypeOK' /\ Dated'
  BY TypeStep DEF IInv
<1>2. Recorded' /\ Kept' /\ WindowBound' /\ RefusalsJustified'
  BY <1>1, AdmitStep, OtherSteps
<1> QED BY <1>1, <1>2 DEF IInv

LEMMA Invariance == Spec => []IInv
BY InitIInv, StepIInv, PTL DEF Spec

(* The limiter's state keeps its types, whatever the limits and the calls. *)
THEOREM TypeCorrect == Spec => []TypeOK
<1>1. IInv => TypeOK
  BY DEF IInv
<1> QED BY <1>1, Invariance, PTL

(* Whatever the order in which late calls reach the lock, no client gets   *)
(* more than MaxRequests requests through in Window - MaxDelay.            *)
THEOREM TheLimitHolds == Spec => []WindowBound
<1>1. IInv => WindowBound
  BY DEF IInv
<1> QED BY <1>1, Invariance, PTL

(* A refused client did use up its own budget within the last Window.      *)
THEOREM RefusalsAreJustified == Spec => []RefusalsJustified
<1>1. IInv => RefusalsJustified
  BY DEF IInv
<1> QED BY <1>1, Invariance, PTL
=============================================================================
