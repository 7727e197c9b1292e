--------------------------- MODULE AuthCodeProofs ---------------------------
(***************************************************************************)
(* Proofs about authorization codes, for any number of requests, codes,    *)
(* clients and verifiers.                                                  *)
(***************************************************************************)
EXTENDS AuthCode, TLAPS

\* What a handler knows at each of its await points.  A reader whose
\* snapshot is current knows that its code is unused; once it has written,
\* nobody else can commit before it does.
HandlersConsistent ==
  \A r \in Requests :
    /\ pc[r] # "idle" => ask[r] \in Asks /\ authorization_codes[ask[r].code] # NoRow
    /\ pc[r] = "read" /\ r \notin stale => ask[r].code \notin is_used
    /\ pc[r] = "marked" => ask[r].code \notin is_used
    /\ pc[r] = "consumed" => /\ ask[r].code \in is_used \ spoilt
                             /\ redemptions[ask[r].code] = 0

\* The write lock is held exactly between UPDATE and COMMIT.
OneWriter == \A r \in Requests : pc[r] = "marked" <=> writer = r

\* A consumed code is in the hands of one request.
OneHolder ==
  \A r, s \in Requests :
    pc[r] = "consumed" /\ pc[s] = "consumed" /\ ask[r].code = ask[s].code => r = s

OnlyUsedAreRedeemed == \A c \in Codes : c \notin is_used => redemptions[c] = 0 /\ c \notin spoilt

\* A consumed code that nobody holds has been redeemed or was spoilt, not both.
HeldOrSettled ==
  \A c \in is_used :
    \/ \E r \in Requests : pc[r] = "consumed" /\ ask[r].code = c
    \/ redemptions[c] = 1 /\ c \notin spoilt
    \/ redemptions[c] = 0 /\ c \in spoilt

IInv ==
  /\ TypeOK
  /\ HandlersConsistent
  /\ OneWriter
  /\ OneHolder
  /\ OnlyUsedAreRedeemed
  /\ OneRedemption
  /\ HeldOrSettled

LEMMA InitIInv == Init => IInv
<1> USE CodeAssumption
<1> SUFFICES ASSUME Init PROVE IInv
  OBVIOUS
<1>1. TypeOK
  BY DEF Init, TypeOK
<1>2. HandlersConsistent /\ OneWriter /\ OneHolder /\ OnlyUsedAreRedeemed
  BY DEF Init, HandlersConsistent, OneWriter, OneHolder, OnlyUsedAreRedeemed
<1>3. OneRedemption /\ HeldOrSettled
  BY DEF Init, OneRedemption, HeldOrSettled
<1> QED BY <1>1, <1>2, <1>3 DEF IInv

LEMMA StepIInv == IInv /\ [Next]_vars => IInv'
<1> SUFFICES ASSUME IInv, [Next]_vars PROVE IInv'
  OBVIOUS
<1> USE CodeAssumption DEF Rows, Asks
<1>1. ASSUME NEW c \in Codes, NEW k \in Clients, NEW h \in Verifiers \union {NoChallenge}, CreateCode(c, k, h) PROVE IInv'
  <2>1. TypeOK'
    BY <1>1 DEF CreateCode, IInv, TypeOK, Commit, outcome
  <2>2. HandlersConsistent'
    BY <1>1 DEF CreateCode, IInv, HandlersConsistent, Commit, outcome
  <2>3. OneWriter'
    BY <1>1 DEF CreateCode, IInv, OneWriter
  <2>4. OneHolder'
    BY <1>1 DEF CreateCode, IInv, OneHolder
  <2>5. OnlyUsedAreRedeemed'
    BY <1>1 DEF CreateCode, IInv, OnlyUsedAreRedeemed, outcome
  <2>6. OneRedemption'
    BY <1>1 DEF CreateCode, IInv, OneRedemption, outcome
  <2>7. HeldOrSettled'
    BY <1>1 DEF CreateCode, IInv, HeldOrSettled, outcome
  <2> QED BY <2>1, <2>2, <2>3, <2>4, <2>5, <2>6, <2>7 DEF IInv
<1>2. ASSUME NEW r \in Requests, NEW a \in Asks, ReadCode(r, a) PROVE IInv'
  <2>1. TypeOK'
    BY <1>2 DEF ReadCode, IInv, TypeOK, GoTo, tables, outcome
  <2>2. HandlersConsistent'
    BY <1>2 DEF ReadCode, IInv, TypeOK, HandlersConsistent, GoTo, tables, outcome
  <2>3. OneWriter'
    BY <1>2 DEF ReadCode, IInv, OneWriter, GoTo
  <2>4. OneHolder'
    BY <1>2 DEF ReadCode, IInv, OneHolder, GoTo
  <2>5. OnlyUsedAreRedeemed'
    BY <1>2 DEF ReadCode, IInv, OnlyUsedAreRedeemed, tables, outcome
  <2>6. OneRedemption'
    BY <1>2 DEF ReadCode, IInv, OneRedemption, outcome
  <2>7. HeldOrSettled'
    BY <1>2 DEF ReadCode, IInv, HeldOrSettled, GoTo, tables, outcome
  <2> QED BY <2>1, <2>2, <2>3, <2>4, <2>5, <2>6, <2>7 DEF IInv
<1>3. ASSUME NEW r \in Requests, MarkUsed(r) PROVE IInv'
  <2>1. TypeOK'
    BY <1>3 DEF MarkUsed, IInv, TypeOK, GoTo, tables, outcome
  <2>2. HandlersConsistent'
    BY <1>3 DEF MarkUsed, IInv, HandlersConsistent, GoTo, tables, outcome
  <2>3. OneWriter'
    BY <1>3 DEF MarkUsed, IInv, TypeOK, OneWriter, GoTo
  <2>4. OneHolder'
    BY <1>3 DEF MarkUsed, IInv, OneHolder, GoTo
  <2>5. OnlyUsedAreRedeemed'
    BY <1>3 DEF MarkUsed, IInv, OnlyUsedAreRedeemed, tables, outcome
  <2>6. OneRedemption'
    BY <1>3 DEF MarkUsed, IInv, OneRedemption, outcome
  <2>7. HeldOrSettled'
    BY <1>3 DEF MarkUsed, IInv, HeldOrSettled, GoTo, tables, outcome
  <2> QED BY <2>1, <2>2, <2>3, <2>4, <2>5, <2>6, <2>7 DEF IInv
<1>4. ASSUME NEW r \in Requests, CommitUsed(r) PROVE IInv'
  <2>1. TypeOK'
    BY <1>4 DEF CommitUsed, IInv, TypeOK, HandlersConsistent, GoTo, Commit, outcome
  <2>2. HandlersConsistent'
    BY <1>4 DEF CommitUsed, IInv, TypeOK, HandlersConsistent, OneWriter, OnlyUsedAreRedeemed, GoTo, Commit, outcome
  <2>3. OneWriter'
    BY <1>4 DEF CommitUsed, IInv, TypeOK, OneWriter, GoTo
  <2>4. OneHolder'
    BY <1>4 DEF CommitUsed, IInv, HandlersConsistent, OneHolder, GoTo
  <2>5. OnlyUsedAreRedeemed'
    BY <1>4 DEF CommitUsed, IInv, OnlyUsedAreRedeemed, outcome
  <2>6. OneRedemption'
    BY <1>4 DEF CommitUsed, IInv, OneRedemption, outcome
  <2>7. HeldOrSettled'
    BY <1>4 DEF CommitUsed, IInv, TypeOK, HeldOrSettled, GoTo, outcome
  <2> QED BY <2>1, <2>2, <2>3, <2>4, <2>5, <2>6, <2>7 DEF IInv
<1>5. ASSUME NEW r \in Requests, Grant(r) PROVE IInv'
  <2>1. TypeOK'
    BY <1>5 DEF Grant, IInv, TypeOK, HandlersConsistent, GoTo, Commit, tables
  <2>2. HandlersConsistent'
    BY <1>5 DEF Grant, IInv, TypeOK, HandlersConsistent, OneHolder, GoTo, Commit, tables
  <2>3. OneWriter'
    BY <1>5 DEF Grant, IInv, OneWriter, GoTo
  <2>4. OneHolder'
    BY <1>5 DEF Grant, IInv, OneHolder, GoTo
  <2>5. OnlyUsedAreRedeemed'
    BY <1>5 DEF Grant, IInv, HandlersConsistent, OnlyUsedAreRedeemed, GoTo, tables
  <2>6. OneRedemption'
    BY <1>5 DEF Grant, IInv, HandlersConsistent, OneRedemption, GoTo
  <2>7. HeldOrSettled'
    BY <1>5 DEF Grant, IInv, TypeOK, HandlersConsistent, OneHolder, HeldOrSettled, GoTo, tables
  <2> QED BY <2>1, <2>2, <2>3, <2>4, <2>5, <2>6, <2>7 DEF IInv
<1>6. ASSUME NEW r \in Requests, Reply(r) PROVE IInv'
  <2>1. TypeOK'
    BY <1>6 DEF Reply, IInv, TypeOK, End, tables, outcome
  <2>2. HandlersConsistent'
    BY <1>6 DEF Reply, IInv, TypeOK, HandlersConsistent, End, tables, outcome
  <2>3. OneWriter'
    BY <1>6 DEF Reply, IInv, OneWriter, End
  <2>4. OneHolder'
    BY <1>6 DEF Reply, IInv, OneHolder, End
  <2>5. OnlyUsedAreRedeemed'
    BY <1>6 DEF Reply, IInv, OnlyUsedAreRedeemed, tables, outcome
  <2>6. OneRedemption'
    BY <1>6 DEF Reply, IInv, OneRedemption, outcome
  <2>7. HeldOrSettled'
    BY <1>6 DEF Reply, IInv, HeldOrSettled, End, tables, outcome
  <2> QED BY <2>1, <2>2, <2>3, <2>4, <2>5, <2>6, <2>7 DEF IInv
<1>7. ASSUME NEW r \in Requests, Fail(r) PROVE IInv'
  <2>1. TypeOK'
    BY <1>7 DEF Fail, IInv, TypeOK, HandlersConsistent, End, tables, outcome
  <2>2. HandlersConsistent'
    BY <1>7 DEF Fail, IInv, TypeOK, HandlersConsistent, OneHolder, End, tables, outcome
  <2>3. OneWriter'
    BY <1>7 DEF Fail, IInv, TypeOK, OneWriter, End
  <2>4. OneHolder'
    BY <1>7 DEF Fail, IInv, TypeOK, OneHolder, End
  <2>5. OnlyUsedAreRedeemed'
    BY <1>7 DEF Fail, IInv, HandlersConsistent, OnlyUsedAreRedeemed, tables, outcome
  <2>6. OneRedemption'
    BY <1>7 DEF Fail, IInv, OneRedemption, outcome
  <2>7. HeldOrSettled'
    BY <1>7 DEF Fail, IInv, HandlersConsistent, OneHolder, HeldOrSettled, End, tables, outcome
  <2> QED BY <2>1, <2>2, <2>3, <2>4, <2>5, <2>6, <2>7 DEF IInv
<1>8. ASSUME Crash PROVE IInv'
  <2>1. TypeOK'
    BY <1>8 DEF Crash, IInv, TypeOK, HandlersConsistent, tables, outcome
  <2>2. HandlersConsistent'
    BY <1>8 DEF Crash, IInv, HandlersConsistent
  <2>3. OneWriter'
    BY <1>8 DEF Crash, IInv, OneWriter
  <2>4. OneHolder'
    BY <1>8 DEF Crash, IInv, OneHolder
  <2>5. OnlyUsedAreRedeemed'
    BY <1>8 DEF Crash, IInv, HandlersConsistent, OnlyUsedAreRedeemed, tables, outcome
  <2>6. OneRedemption'
    BY <1>8 DEF Crash, IInv, OneRedemption, outcome
  <2>7. HeldOrSettled'
    BY <1>8 DEF Crash, IInv, HandlersConsistent, HeldOrSettled, tables, outcome
  <2> QED BY <2>1, <2>2, <2>3, <2>4, <2>5, <2>6, <2>7 DEF IInv
<1>9. ASSUME NEW c \in Codes, Expire(c) PROVE IInv'
  <2>1. TypeOK'
    BY <1>9 DEF Expire, IInv, TypeOK, outcome
  <2>2. HandlersConsistent'
    BY <1>9 DEF Expire, IInv, HandlersConsistent, outcome
  <2>3. OneWriter'
    BY <1>9 DEF Expire, IInv, OneWriter
  <2>4. OneHolder'
    BY <1>9 DEF Expire, IInv, OneHolder
  <2>5. OnlyUsedAreRedeemed'
    BY <1>9 DEF Expire, IInv, OnlyUsedAreRedeemed, outcome
  <2>6. OneRedemption'
    BY <1>9 DEF Expire, IInv, OneRedemption, outcome
  <2>7. HeldOrSettled'
    BY <1>9 DEF Expire, IInv, HeldOrSettled, outcome
  <2> QED BY <2>1, <2>2, <2>3, <2>4, <2>5, <2>6, <2>7 DEF IInv
<1>10. CASE UNCHANGED vars
  BY <1>10 DEF vars, tables, outcome, IInv, TypeOK, HandlersConsistent, OneWriter, OneHolder, OnlyUsedAreRedeemed, OneRedemption, HeldOrSettled
<1> QED BY <1>1, <1>2, <1>3, <1>4, <1>5, <1>6, <1>7, <1>8, <1>9, <1>10 DEF Next

\* Who holds a code is one request, so that its fates exclude each other.
LEMMA HeldOrSettledExplains == IInv => BurntIsExplained
<1> SUFFICES ASSUME IInv, NEW c \in is_used
             PROVE  \/ InHand(c) = {} /\ redemptions[c] = 1 /\ c \notin spoilt
                    \/ InHand(c) = {} /\ redemptions[c] = 0 /\ c \in spoilt
                    \/ redemptions[c] = 0 /\ c \notin spoilt /\ \E r \in Requests : InHand(c) = {r}
  BY DEF BurntIsExplained
<1>1. CASE InHand(c) = {}
  BY <1>1 DEF IInv, HeldOrSettled, InHand
<1>2. ASSUME NEW r \in InHand(c)
      PROVE  redemptions[c] = 0 /\ c \notin spoilt /\ InHand(c) = {r}
  <2>1. r \in Requests /\ pc[r] = "consumed" /\ ask[r].code = c
    BY <1>2 DEF InHand
  <2>2. redemptions[c] = 0 /\ c \notin spoilt
    BY <2>1 DEF IInv, HandlersConsistent
  <2>3. \A s \in InHand(c) : s = r
    BY <2>1 DEF IInv, OneHolder, InHand
  <2> QED BY <1>2, <2>2, <2>3
<1>3. InHand(c) \subseteq Requests
  BY DEF InHand
<1> QED BY <1>1, <1>2, <1>3

THEOREM Invariance == Spec => []IInv
<1> QED BY InitIInv, StepIInv, PTL DEF Spec

\* The table, the handlers and the history keep their types.
THEOREM TypeCorrect == Spec => []TypeOK
<1>1. IInv => TypeOK
  BY DEF IInv
<1> QED BY <1>1, Invariance, PTL

\* No code is ever redeemed twice, however many requests present it at the
\* same time and wherever handlers fail or the process restarts.
THEOREM CodesAreRedeemedOnce == Spec => []OneRedemption
<1>1. IInv => OneRedemption
  BY DEF IInv
<1> QED BY <1>1, Invariance, PTL

\* A consumed code is about to be redeemed by one request, has been redeemed
\* once, or was consumed in vain, and only one of these.
THEOREM BurntCodesAreExplained == Spec => []BurntIsExplained
<1>1. IInv => BurntIsExplained
  BY HeldOrSettledExplains
<1> QED BY <1>1, Invariance, PTL

\* What each step does to the one-shot code: creating a code opens it,
\* COMMIT consumes it, the grant redeems it, and nothing else is visible.
LEMMA StepRefines == IInv /\ [Next]_vars => [Promise!Next]_(Promise!vars)
<1> SUFFICES ASSUME IInv, [Next]_vars PROVE Promise!Next \/ UNCHANGED Promise!vars
  OBVIOUS
<1> DEFINE Status == [c \in Codes |->
      IF authorization_codes[c] = NoRow THEN "none"
      ELSE IF c \in is_used THEN "consumed" ELSE "open"]
<1>1. UNCHANGED <<authorization_codes, is_used, redemptions>> => UNCHANGED Promise!vars
  BY DEF Promise!vars
<1>2. ASSUME NEW c \in Codes, NEW k \in Clients, NEW h \in Verifiers \union {NoChallenge}, CreateCode(c, k, h)
      PROVE  Promise!Next
  <2>1. c \notin is_used /\ authorization_codes[c] = NoRow
    BY <1>2 DEF CreateCode, IInv, TypeOK
  <2>2. [client |-> k, challenge |-> h] # NoRow
    BY CodeAssumption
  <2>3. Status' = [Status EXCEPT ![c] = "open"]
    BY <1>2, <2>1, <2>2 DEF CreateCode, IInv, TypeOK
  <2>4. Status[c] = "none" /\ UNCHANGED redemptions
    BY <1>2, <2>1 DEF CreateCode, outcome
  <2> QED BY <2>3, <2>4 DEF Promise!Next, Promise!Move
<1>3. ASSUME NEW r \in Requests, CommitUsed(r) PROVE Promise!Next
  <2>1. /\ ask[r].code \in Codes \ is_used
        /\ authorization_codes[ask[r].code] # NoRow
    BY <1>3 DEF CommitUsed, GoTo, IInv, HandlersConsistent, Asks
  <2>2. Status' = [Status EXCEPT ![ask[r].code] = "consumed"]
    BY <1>3, <2>1 DEF CommitUsed
  <2>3. Status[ask[r].code] = "open" /\ UNCHANGED redemptions
    BY <1>3, <2>1 DEF CommitUsed, outcome
  <2> QED BY <2>1, <2>2, <2>3 DEF Promise!Next, Promise!Move
<1>4. ASSUME NEW r \in Requests, Grant(r) PROVE Promise!Next
  <2>1. /\ ask[r].code \in is_used /\ redemptions[ask[r].code] = 0
        /\ ask[r].code \in Codes /\ authorization_codes[ask[r].code] # NoRow
    BY <1>4 DEF Grant, GoTo, IInv, HandlersConsistent, Asks
  <2>2. redemptions' = [redemptions EXCEPT ![ask[r].code] = 1] /\ UNCHANGED Status
    BY <1>4, <2>1 DEF Grant, tables
  <2>3. Status[ask[r].code] = "consumed"
    BY <2>1
  <2> QED BY <2>1, <2>2, <2>3 DEF Promise!Next, Promise!Redeem
<1>5. CASE UNCHANGED vars
  BY <1>1, <1>5 DEF vars, tables, outcome
<1>6. CASE \/ \E r \in Requests : MarkUsed(r) \/ Reply(r) \/ Fail(r) \/ \E a \in Asks : ReadCode(r, a)
           \/ Crash
           \/ \E c \in Codes : Expire(c)
  BY <1>1, <1>6 DEF MarkUsed, Reply, Fail, ReadCode, Crash, Expire, tables, outcome
<1> QED BY <1>2, <1>3, <1>4, <1>5, <1>6 DEF Next

\* The authorization_codes table with any number of concurrent requests
\* implements the one-shot code.
THEOREM Refinement == Spec => RefinesOneShotCode
<1>1. Init => Promise!Init
  BY CodeAssumption DEF Init, Promise!Init
<1>2. IInv /\ [Next]_vars => [Promise!Next]_(Promise!vars)
  BY StepRefines
<1> QED BY <1>1, <1>2, Invariance, PTL DEF Spec, RefinesOneShotCode, Promise!Spec
=============================================================================
