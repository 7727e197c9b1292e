------------------------- MODULE TokenServiceProofs -------------------------
(***************************************************************************)
(* Proofs about the token service for any number of requests and token     *)
(* pairs and any lifetimes.                                                *)
(***************************************************************************)
EXTENDS TokenService, TLAPS

\* The tables on their own: only signed pairs have rows, only rows are
\* revoked, and only a committed row has an origin, which is a row too.
TablesConsistent ==
  /\ \A p \in refresh_tokens : minted[p] # Unminted
  /\ is_revoked \subseteq refresh_tokens
  /\ \A p \in TokenPairs : origin[p] # NoPair =>
       p \in refresh_tokens /\ origin[p] \in refresh_tokens

\* What a handler knows at each of its await points.
HandlersConsistent ==
  \A r \in Requests :
    /\ pc[r] \in {"issued", "rotated"} => child[r] \in refresh_tokens
    /\ pc[r] \in {"loaded", "revoking", "issuing"} =>
         tok[r] \in Tokens /\ tok[r].pair \in refresh_tokens
    /\ pc[r] = "issuing" =>
         child[r] \in TokenPairs \ refresh_tokens /\ minted[child[r]] # Unminted
    /\ pc[r] = "listed" => tok[r] \in Tokens /\ Listed(tok[r])

\* SQLite admits one write transaction, and it belongs to a rotation.
OneWriter ==
  \A r \in Requests : pc[r] \in {"revoking", "issuing"} <=> dbWriter = r

IInv ==
  /\ TypeOK
  /\ TablesConsistent
  /\ HandlersConsistent
  /\ OneWriter
  /\ RotationAtomic
  /\ RevocationExplained
  /\ HeldIsCommitted

LEMMA StepIInv == IInv /\ [Next]_vars => IInv'
<1> SUFFICES ASSUME IInv, [Next]_vars PROVE IInv'
  OBVIOUS
<1> USE TTLAssumption, SentinelAssumption
<1> USE DEF Unminted, Kinds, Tokens, Access, Refresh, NoToken, Hints, States
<1>1. ASSUME NEW r \in Requests, NEW p \in TokenPairs, IssueInsert(r, p) PROVE IInv'
  <2>1. TypeOK'
    BY <1>1 DEF IssueInsert, IInv, TypeOK, GoTo, histVars
  <2>2. TablesConsistent'
    BY <1>1 DEF IssueInsert, IInv, TypeOK, TablesConsistent, histVars
  <2>3. HandlersConsistent'
    BY <1>1 DEF IssueInsert, IInv, TypeOK, HandlersConsistent, GoTo, Fresh, Listed
  <2>4. OneWriter'
    BY <1>1 DEF IssueInsert, IInv, OneWriter, GoTo
  <2>5. RotationAtomic'
    BY <1>1 DEF IssueInsert, IInv, TablesConsistent, RotationAtomic, histVars
  <2>6. RevocationExplained'
    BY <1>1 DEF IssueInsert, IInv, RevocationExplained, Listed, histVars
  <2>7. HeldIsCommitted'
    BY <1>1 DEF IssueInsert, IInv, HeldIsCommitted
  <2> QED BY <2>1, <2>2, <2>3, <2>4, <2>5, <2>6, <2>7 DEF IInv
<1>2. ASSUME NEW p \in TokenPairs, IssueAccessOnly(p) PROVE IInv'
  <2>1. TypeOK'
    BY <1>2 DEF IssueAccessOnly, IInv, TypeOK, dbVars, histVars
  <2>2. TablesConsistent'
    BY <1>2 DEF IssueAccessOnly, IInv, TypeOK, TablesConsistent, dbVars, histVars
  <2>3. HandlersConsistent'
    BY <1>2 DEF IssueAccessOnly, IInv, TypeOK, HandlersConsistent, Listed, dbVars
  <2>4. OneWriter'
    BY <1>2 DEF IssueAccessOnly, IInv, OneWriter
  <2>5. RotationAtomic'
    BY <1>2 DEF IssueAccessOnly, IInv, RotationAtomic, dbVars, histVars
  <2>6. RevocationExplained'
    BY <1>2 DEF IssueAccessOnly, IInv, RevocationExplained, Listed, dbVars, histVars
  <2>7. HeldIsCommitted'
    BY <1>2 DEF IssueAccessOnly, IInv, HeldIsCommitted, dbVars
  <2> QED BY <2>1, <2>2, <2>3, <2>4, <2>5, <2>6, <2>7 DEF IInv
<1>3. ASSUME NEW r \in Requests, Reply(r) PROVE IInv'
  <2>1. TypeOK'
    BY <1>3 DEF Reply, IInv, TypeOK, HandlersConsistent, End, Replying, dbVars, histVars
  <2>2. TablesConsistent'
    BY <1>3 DEF Reply, IInv, TablesConsistent, dbVars, histVars
  <2>3. HandlersConsistent'
    BY <1>3 DEF Reply, IInv, TypeOK, HandlersConsistent, End, Listed, dbVars
  <2>4. OneWriter'
    BY <1>3 DEF Reply, IInv, OneWriter, End, Replying
  <2>5. RotationAtomic'
    BY <1>3 DEF Reply, IInv, RotationAtomic, dbVars, histVars
  <2>6. RevocationExplained'
    BY <1>3 DEF Reply, IInv, RevocationExplained, Listed, dbVars, histVars
  <2>7. HeldIsCommitted'
    BY <1>3 DEF Reply, IInv, HandlersConsistent, HeldIsCommitted, Replying, dbVars
  <2> QED BY <2>1, <2>2, <2>3, <2>4, <2>5, <2>6, <2>7 DEF IInv
<1>4. ASSUME NEW r \in Requests, Answer(r) PROVE IInv'
  <2>1. TypeOK'
    BY <1>4 DEF Answer, IInv, TypeOK, End, dbVars, histVars
  <2>2. HandlersConsistent'
    BY <1>4 DEF Answer, IInv, HandlersConsistent, End, Listed, dbVars
  <2>3. OneWriter'
    BY <1>4 DEF Answer, IInv, OneWriter, End
  <2>4. TablesConsistent'
    BY <1>4 DEF Answer, IInv, TablesConsistent, dbVars, histVars
  <2>5. RotationAtomic' /\ RevocationExplained' /\ HeldIsCommitted'
    BY <1>4 DEF Answer, IInv, RotationAtomic, RevocationExplained, HeldIsCommitted, Listed, dbVars, histVars
  <2> QED BY <2>1, <2>2, <2>3, <2>4, <2>5 DEF IInv
<1>5. ASSUME NEW r \in Requests, NEW t \in Tokens, RefreshLoad(r, t) PROVE IInv'
  <2>1. TypeOK'
    BY <1>5 DEF RefreshLoad, IInv, TypeOK, Begin, dbVars, histVars
  <2>2. HandlersConsistent'
    BY <1>5 DEF RefreshLoad, IInv, TypeOK, HandlersConsistent, Begin, Listed, dbVars
  <2>3. OneWriter'
    BY <1>5 DEF RefreshLoad, IInv, OneWriter, Begin
  <2>4. TablesConsistent'
    BY <1>5 DEF RefreshLoad, IInv, TablesConsistent, dbVars, histVars
  <2>5. RotationAtomic' /\ RevocationExplained' /\ HeldIsCommitted'
    BY <1>5 DEF RefreshLoad, IInv, RotationAtomic, RevocationExplained, HeldIsCommitted, Listed, dbVars, histVars
  <2> QED BY <2>1, <2>2, <2>3, <2>4, <2>5 DEF IInv
<1>6. ASSUME NEW r \in Requests, RefreshBegin(r) PROVE IInv'
  <2>1. TypeOK'
    BY <1>6 DEF RefreshBegin, IInv, TypeOK, GoTo, dbVars, histVars
  <2>2. HandlersConsistent'
    BY <1>6 DEF RefreshBegin, IInv, HandlersConsistent, GoTo, Listed, dbVars
  <2>3. OneWriter'
    BY <1>6 DEF RefreshBegin, IInv, TypeOK, OneWriter, GoTo
  <2>4. TablesConsistent'
    BY <1>6 DEF RefreshBegin, IInv, TablesConsistent, dbVars, histVars
  <2>5. RotationAtomic' /\ RevocationExplained' /\ HeldIsCommitted'
    BY <1>6 DEF RefreshBegin, IInv, RotationAtomic, RevocationExplained, HeldIsCommitted, Listed, dbVars, histVars
  <2> QED BY <2>1, <2>2, <2>3, <2>4, <2>5 DEF IInv
<1>7. ASSUME NEW r \in Requests, NEW p \in TokenPairs, RefreshIssue(r, p) PROVE IInv'
  <2>1. TypeOK'
    BY <1>7 DEF RefreshIssue, IInv, TypeOK, GoTo, dbVars, histVars
  <2>2. HandlersConsistent'
    BY <1>7 DEF RefreshIssue, IInv, TypeOK, TablesConsistent, HandlersConsistent, GoTo, Fresh, Listed, dbVars
  <2>3. OneWriter'
    BY <1>7 DEF RefreshIssue, IInv, OneWriter, GoTo
  <2>4. TablesConsistent'
    BY <1>7 DEF RefreshIssue, IInv, TypeOK, TablesConsistent, dbVars, histVars
  <2>5. RotationAtomic' /\ RevocationExplained' /\ HeldIsCommitted'
    BY <1>7 DEF RefreshIssue, IInv, RotationAtomic, RevocationExplained, HeldIsCommitted, Listed, dbVars, histVars
  <2> QED BY <2>1, <2>2, <2>3, <2>4, <2>5 DEF IInv
<1>8. ASSUME NEW r \in Requests, RefreshCommit(r) PROVE IInv'
  <2>1. TypeOK'
    BY <1>8 DEF RefreshCommit, IInv, TypeOK, HandlersConsistent, GoTo
  <2>2. TablesConsistent'
    BY <1>8 DEF RefreshCommit, IInv, TablesConsistent, HandlersConsistent, GoTo
  <2>3. HandlersConsistent'
    BY <1>8 DEF RefreshCommit, IInv, TypeOK, HandlersConsistent, OneWriter, GoTo, Listed
  <2>4. OneWriter'
    BY <1>8 DEF RefreshCommit, IInv, TypeOK, OneWriter, GoTo
  <2>5. RotationAtomic'
    BY <1>8 DEF RefreshCommit, IInv, TypeOK, HandlersConsistent, RotationAtomic, GoTo
  <2>6. RevocationExplained'
    <3>1. ASSUME NEW q \in is_revoked'
          PROVE  (\E p \in refresh_tokens' : origin'[p] = q) \/ Listed(Refresh(q))'
      <4>1. CASE q = tok[r].pair
        <5>1. child[r] \in refresh_tokens' /\ origin'[child[r]] = q
          BY <1>8, <4>1 DEF RefreshCommit, IInv, TypeOK, HandlersConsistent, GoTo
        <5> QED BY <5>1
      <4>2. CASE q \in is_revoked
        <5>1. CASE \E p \in refresh_tokens : origin[p] = q
          <6>1. PICK p \in refresh_tokens : origin[p] = q
            BY <5>1
          <6>2. p \in refresh_tokens' /\ origin'[p] = q
            BY <1>8, <6>1 DEF RefreshCommit, IInv, HandlersConsistent, GoTo
          <6> QED BY <6>2
        <5>2. CASE Listed(Refresh(q))
          BY <1>8, <5>2 DEF RefreshCommit, Listed
        <5> QED BY <4>2, <5>1, <5>2 DEF IInv, RevocationExplained
      <4> QED BY <1>8, <3>1, <4>1, <4>2 DEF RefreshCommit
    <3> QED BY <3>1 DEF RevocationExplained
  <2>7. HeldIsCommitted'
    BY <1>8 DEF RefreshCommit, IInv, HeldIsCommitted
  <2> QED BY <2>1, <2>2, <2>3, <2>4, <2>5, <2>6, <2>7 DEF IInv
<1>9. ASSUME NEW r \in Requests, NEW t \in Tokens, NEW hint \in Hints, RevokeList(r, t, hint) PROVE IInv'
  <2>1. TypeOK'
    BY <1>9 DEF RevokeList, IInv, TypeOK, Begin
  <2>2. TablesConsistent'
    BY <1>9 DEF RevokeList, IInv, TablesConsistent
  <2>3. HandlersConsistent'
    <3>1. token_blacklist \subseteq token_blacklist'
      BY <1>9 DEF RevokeList
    <3>2. \E b \in token_blacklist' : b.jti = t
      <4> DEFINE row == [jti |-> t, expires_at |-> now + BlacklistTTL]
      <4>1. row \in token_blacklist' /\ row.jti = t
        BY <1>9 DEF RevokeList
      <4> QED BY <4>1
    <3>3. \/ pc' = [pc EXCEPT ![r] = "listed"] /\ tok' = [tok EXCEPT ![r] = t]
          \/ pc' = pc /\ tok' = tok
      BY <1>9 DEF RevokeList, Begin
    <3>4. refresh_tokens' = refresh_tokens /\ child' = child /\ minted' = minted
      BY <1>9 DEF RevokeList
    <3>5. ASSUME NEW s \in Requests, pc'[s] = "listed"
          PROVE  tok'[s] \in Tokens /\ Listed(tok[s])'
      <4>1. (tok'[s] = t) \/ (pc[s] = "listed" /\ tok'[s] = tok[s])
        BY <3>3, <3>5 DEF IInv, TypeOK
      <4>2. CASE tok'[s] = t
        BY <3>2, <4>2 DEF Listed
      <4>3. CASE pc[s] = "listed" /\ tok'[s] = tok[s]
        <5>1. tok[s] \in Tokens /\ \E b \in token_blacklist : b.jti = tok[s]
          BY <4>3 DEF IInv, HandlersConsistent, Listed
        <5> QED BY <3>1, <4>3, <5>1 DEF Listed
      <4> QED BY <4>1, <4>2, <4>3
    <3>6. ASSUME NEW s \in Requests, pc'[s] # "listed", pc'[s] # "idle"
          PROVE  pc'[s] = pc[s] /\ tok'[s] = tok[s]
      BY <3>3, <3>6, <1>9 DEF RevokeList, IInv, TypeOK
    <3>7. ASSUME NEW s \in Requests, pc'[s] # "listed", pc'[s] # "idle"
          PROVE  /\ pc'[s] \in {"issued", "rotated"} => child'[s] \in refresh_tokens'
                 /\ pc'[s] \in {"loaded", "revoking", "issuing"} =>
                      tok'[s] \in Tokens /\ tok'[s].pair \in refresh_tokens'
                 /\ pc'[s] = "issuing" =>
                      child'[s] \in TokenPairs \ refresh_tokens' /\ minted'[child'[s]] # Unminted
      BY <3>4, <3>6, <3>7 DEF IInv, HandlersConsistent
    <3> QED
      BY <3>5, <3>7 DEF HandlersConsistent
  <2>4. OneWriter'
    BY <1>9 DEF RevokeList, IInv, TypeOK, OneWriter, Begin
  <2>5. RotationAtomic'
    BY <1>9 DEF RevokeList, IInv, RotationAtomic
  <2>6. RevocationExplained'
    BY <1>9 DEF RevokeList, IInv, RevocationExplained, Listed
  <2>7. HeldIsCommitted'
    BY <1>9 DEF RevokeList, IInv, HeldIsCommitted
  <2> QED BY <2>1, <2>2, <2>3, <2>4, <2>5, <2>6, <2>7 DEF IInv
<1>10. ASSUME NEW r \in Requests, RevokeMark(r) PROVE IInv'
  <2>1. TypeOK'
    BY <1>10 DEF RevokeMark, IInv, TypeOK, HandlersConsistent, End, MarkedRow
  <2>2. TablesConsistent'
    BY <1>10 DEF RevokeMark, IInv, TablesConsistent, MarkedRow
  <2>3. HandlersConsistent'
    BY <1>10 DEF RevokeMark, IInv, TypeOK, HandlersConsistent, End, Listed
  <2>4. OneWriter'
    BY <1>10 DEF RevokeMark, IInv, OneWriter, End
  <2>5. RotationAtomic'
    BY <1>10 DEF RevokeMark, IInv, RotationAtomic
  <2>6. RevocationExplained'
    <3>1. ASSUME NEW q \in is_revoked'
          PROVE  (\E p \in refresh_tokens' : origin'[p] = q) \/ Listed(Refresh(q))'
      <4>1. CASE q \in is_revoked
        BY <1>10, <4>1 DEF RevokeMark, IInv, RevocationExplained, Listed
      <4>2. CASE q \in MarkedRow(tok[r])
        <5>1. tok[r] = Refresh(q)
          BY <1>10, <4>2 DEF RevokeMark, IInv, HandlersConsistent, MarkedRow
        <5> QED BY <1>10, <5>1 DEF RevokeMark, IInv, HandlersConsistent, Listed
      <4> QED BY <1>10, <3>1, <4>1, <4>2 DEF RevokeMark
    <3> QED BY <3>1 DEF RevocationExplained
  <2>7. HeldIsCommitted'
    BY <1>10 DEF RevokeMark, IInv, HeldIsCommitted
  <2> QED BY <2>1, <2>2, <2>3, <2>4, <2>5, <2>6, <2>7 DEF IInv
<1>11. ASSUME NEW r \in Requests, NEW t \in Tokens, IntrospectList(r, t) PROVE IInv'
  <2>1. TypeOK'
    BY <1>11 DEF IntrospectList, IInv, TypeOK, Begin, dbVars, histVars
  <2>2. HandlersConsistent'
    BY <1>11 DEF IntrospectList, IInv, HandlersConsistent, Begin, Listed, dbVars
  <2>3. OneWriter'
    BY <1>11 DEF IntrospectList, IInv, OneWriter, Begin
  <2>4. TablesConsistent'
    BY <1>11 DEF IntrospectList, IInv, TablesConsistent, dbVars, histVars
  <2>5. RotationAtomic' /\ RevocationExplained' /\ HeldIsCommitted'
    BY <1>11 DEF IntrospectList, IInv, RotationAtomic, RevocationExplained, HeldIsCommitted, Listed, dbVars, histVars
  <2> QED BY <2>1, <2>2, <2>3, <2>4, <2>5 DEF IInv
<1>12. ASSUME NEW r \in Requests, IntrospectRow(r) PROVE IInv'
  <2>1. TypeOK'
    BY <1>12 DEF IntrospectRow, IInv, TypeOK, GoTo, dbVars, histVars
  <2>2. HandlersConsistent'
    BY <1>12 DEF IntrospectRow, IInv, HandlersConsistent, GoTo, Listed, dbVars
  <2>3. OneWriter'
    BY <1>12 DEF IntrospectRow, IInv, OneWriter, GoTo
  <2>4. TablesConsistent'
    BY <1>12 DEF IntrospectRow, IInv, TablesConsistent, dbVars, histVars
  <2>5. RotationAtomic' /\ RevocationExplained' /\ HeldIsCommitted'
    BY <1>12 DEF IntrospectRow, IInv, RotationAtomic, RevocationExplained, HeldIsCommitted, Listed, dbVars, histVars
  <2> QED BY <2>1, <2>2, <2>3, <2>4, <2>5 DEF IInv
<1>13. ASSUME NEW r \in Requests, Drop(r) PROVE IInv'
  <2>1. TypeOK'
    BY <1>13 DEF Drop, IInv, TypeOK, HandlersConsistent, End, dbVars, histVars
  <2>2. HandlersConsistent'
    BY <1>13 DEF Drop, IInv, TypeOK, HandlersConsistent, OneWriter, End, Listed, dbVars
  <2>3. OneWriter'
    BY <1>13 DEF Drop, IInv, TypeOK, OneWriter, End
  <2>4. TablesConsistent'
    BY <1>13 DEF Drop, IInv, TablesConsistent, HandlersConsistent, dbVars, histVars
  <2>5. RotationAtomic' /\ RevocationExplained' /\ HeldIsCommitted'
    BY <1>13 DEF Drop, IInv, RotationAtomic, RevocationExplained, HeldIsCommitted, Listed, dbVars, histVars
  <2> QED BY <2>1, <2>2, <2>3, <2>4, <2>5 DEF IInv
<1>14. ASSUME Crash PROVE IInv'
  <2>1. TypeOK'
    BY <1>14 DEF Crash, IInv, TypeOK, dbVars, histVars
  <2>2. HandlersConsistent'
    BY <1>14 DEF Crash, IInv, HandlersConsistent
  <2>3. OneWriter'
    BY <1>14 DEF Crash, IInv, OneWriter
  <2>4. TablesConsistent'
    BY <1>14 DEF Crash, IInv, TypeOK, TablesConsistent, HandlersConsistent, dbVars, histVars
  <2>5. RotationAtomic' /\ RevocationExplained' /\ HeldIsCommitted'
    BY <1>14 DEF Crash, IInv, RotationAtomic, RevocationExplained, HeldIsCommitted, Listed, dbVars, histVars
  <2> QED BY <2>1, <2>2, <2>3, <2>4, <2>5 DEF IInv
<1>15. ASSUME Tick PROVE IInv'
  <2>1. TypeOK'
    BY <1>15 DEF Tick, IInv, TypeOK, dbVars, histVars
  <2>2. HandlersConsistent'
    BY <1>15 DEF Tick, IInv, HandlersConsistent, Listed, dbVars
  <2>3. OneWriter'
    BY <1>15 DEF Tick, IInv, OneWriter
  <2>4. TablesConsistent'
    BY <1>15 DEF Tick, IInv, TablesConsistent, dbVars, histVars
  <2>5. RotationAtomic' /\ RevocationExplained' /\ HeldIsCommitted'
    BY <1>15 DEF Tick, IInv, RotationAtomic, RevocationExplained, HeldIsCommitted, Listed, dbVars, histVars
  <2> QED BY <2>1, <2>2, <2>3, <2>4, <2>5 DEF IInv
<1>16. CASE UNCHANGED vars
  BY <1>16 DEF IInv, TypeOK, TablesConsistent, HandlersConsistent, OneWriter, RotationAtomic, RevocationExplained, HeldIsCommitted, Listed, dbVars, histVars, vars
<1> QED BY <1>1, <1>2, <1>3, <1>4, <1>5, <1>6, <1>7, <1>8, <1>9, <1>10, <1>11, <1>12, <1>13, <1>14, <1>15, <1>16 DEF Next

LEMMA InitIInv == Init => IInv
<1> SUFFICES ASSUME Init PROVE IInv
  OBVIOUS
<1> USE DEF Init, Tokens, Kinds, Access, Refresh, NoToken, Hints, States, Unminted
<1>1. TypeOK
  BY DEF TypeOK
<1>2. TablesConsistent /\ RotationAtomic /\ RevocationExplained /\ HeldIsCommitted
  BY DEF TablesConsistent, RotationAtomic, RevocationExplained, HeldIsCommitted
<1>3. HandlersConsistent
  BY DEF HandlersConsistent
<1>4. OneWriter
  BY SentinelAssumption DEF OneWriter
<1> QED BY <1>1, <1>2, <1>3, <1>4 DEF IInv

\* The inductive invariant holds in every reachable state.
THEOREM Invariance == Spec => []IInv
<1>1. Init => IInv
  BY InitIInv
<1>2. IInv /\ [Next]_vars => IInv'
  BY StepIInv
<1> QED BY <1>1, <1>2, PTL DEF Spec

\* Type correctness of the token service.
THEOREM TypeCorrect == Spec => []TypeOK
<1>1. IInv => TypeOK
  BY DEF IInv
<1> QED BY <1>1, Invariance, PTL

\* A refresh token that has been rotated into a committed successor is
\* revoked: the transaction of refresh_token is atomic, whatever the number
\* of concurrent requests, dropped handlers and restarts.
THEOREM RotationIsAtomic == Spec => []RotationAtomic
<1>1. IInv => RotationAtomic
  BY DEF IInv
<1> QED BY <1>1, Invariance, PTL

\* No refresh token is ever revoked without a committed successor or a
\* blacklist row that tells who asked for it.
THEOREM RevocationIsExplained == Spec => []RevocationExplained
<1>1. IInv => RevocationExplained
  BY DEF IInv
<1> QED BY <1>1, Invariance, PTL

\* Every refresh token in a client's hands has a committed row.
THEOREM HeldTokensAreCommitted == Spec => []HeldIsCommitted
<1>1. IInv => HeldIsCommitted
  BY DEF IInv
<1> QED BY <1>1, Invariance, PTL

-----------------------------------------------------------------------------
(* Acknowledged revocations.                                               *)

\* What an acknowledged revocation has left in the tables.
AcknowledgedIsStored ==
  \A a \in acked :
    /\ Listed(a.token)
    /\ a.token.kind = "refresh" /\ a.hint = "refresh_token" => a.token.pair \in is_revoked

\* The blacklist has run out on token t.
RunOut(t) == \E b \in token_blacklist : b.jti = t /\ b.expires_at <= now

\* What a handler's start and its reads tell of its token's revocations.
HandlerSaw(r) ==
  /\ \A hint \in before[r] : [token |-> tok[r], hint |-> hint] \in acked
  /\ pc[r] = "listed" => tok[r] \in held
  /\ pc[r] \in {"unlisted", "active"} => (before[r] # {} => RunOut(tok[r]))
  /\ pc[r] = "active" => ~(tok[r].kind = "refresh" /\ "refresh_token" \in before[r])
  /\ pc[r] \in {"loaded", "revoking", "issuing", "rotated"} => "refresh_token" \notin before[r]

AckInv == AcknowledgedIsStored /\ \A r \in Requests : HandlerSaw(r)

\* The tables and the record of acknowledgements only ever gain.
LEMMA OnlyGains ==
  ASSUME TypeOK, [Next]_vars
  PROVE  /\ acked \subseteq acked' /\ token_blacklist \subseteq token_blacklist'
         /\ is_revoked \subseteq is_revoked' /\ held \subseteq held'
         /\ now \in Nat /\ now' \in Nat /\ now <= now'
<1>1. now' \in Nat /\ now <= now'
  BY DEF TypeOK, Next, IssueInsert, IssueAccessOnly, Reply, Answer, RefreshLoad, RefreshBegin, RefreshIssue,
    RefreshCommit, RevokeList, RevokeMark, IntrospectList, IntrospectRow, Drop, Crash, Tick, vars
<1>2. held \subseteq held'
  BY DEF Next, IssueInsert, IssueAccessOnly, Reply, Answer, RefreshLoad, RefreshBegin, RefreshIssue,
    RefreshCommit, RevokeList, RevokeMark, IntrospectList, IntrospectRow, Drop, Crash, Tick, vars
<1>3. acked \subseteq acked' /\ token_blacklist \subseteq token_blacklist' /\ is_revoked \subseteq is_revoked'
  BY DEF Next, IssueInsert, IssueAccessOnly, Reply, Answer, RefreshLoad, RefreshBegin, RefreshIssue,
    RefreshCommit, RevokeList, RevokeMark, IntrospectList, IntrospectRow, Drop, Crash, Tick, vars, dbVars, histVars
<1> QED BY <1>1, <1>2, <1>3 DEF TypeOK

\* A revocation is acknowledged when both its writes are in the tables.
LEMMA StoredStep ==
  ASSUME IInv, AckInv, [Next]_vars
  PROVE  AcknowledgedIsStored'
<1> SUFFICES ASSUME NEW a \in acked'
             PROVE  /\ Listed(a.token)'
                    /\ a.token.kind = "refresh" /\ a.hint = "refresh_token" => a.token.pair \in is_revoked'
  BY DEF AcknowledgedIsStored
<1>1. /\ token_blacklist \subseteq token_blacklist' /\ is_revoked \subseteq is_revoked'
  BY OnlyGains DEF IInv
<1>2. CASE a \in acked
  BY <1>1, <1>2 DEF AckInv, AcknowledgedIsStored, Listed
<1>3. CASE a \notin acked
  <2>1. ASSUME NEW r \in Requests, NEW t \in Tokens, NEW hint \in Hints, RevokeList(r, t, hint)
        PROVE  Listed(a.token)' /\ a.hint # "refresh_token"
    <3>1. a = [token |-> t, hint |-> hint] /\ hint # "refresh_token"
      BY <1>3, <2>1 DEF RevokeList
    <3>2. [jti |-> t, expires_at |-> now + BlacklistTTL] \in token_blacklist'
      BY <2>1 DEF RevokeList
    <3> QED BY <3>1, <3>2 DEF Listed
  <2>2. ASSUME NEW r \in Requests, RevokeMark(r)
        PROVE  /\ Listed(a.token)'
               /\ a.token.kind = "refresh" => a.token.pair \in is_revoked'
    <3>1. a.token = tok[r] /\ is_revoked' = is_revoked \union MarkedRow(tok[r])
      BY <1>3, <2>2 DEF RevokeMark
    <3>2. tok[r] \in Tokens /\ tok[r] \in held /\ Listed(tok[r])
      BY <2>2 DEF RevokeMark, IInv, HandlersConsistent, AckInv, HandlerSaw
    <3>3. tok[r].kind = "refresh" => tok[r].pair \in refresh_tokens
      <4>1. tok[r].kind = "refresh" => tok[r] = Refresh(tok[r].pair) /\ tok[r].pair \in TokenPairs
        BY <3>2 DEF Tokens, Refresh
      <4> QED BY <3>2, <4>1 DEF IInv, HeldIsCommitted
    <3> QED BY <1>1, <3>1, <3>2, <3>3 DEF MarkedRow, Listed
  <2>3. CASE acked' = acked
    BY <1>3, <2>3
  <2> QED BY <2>1, <2>2, <2>3 DEF Next, IssueInsert, IssueAccessOnly, Reply, Answer, RefreshLoad, RefreshBegin,
            RefreshIssue, RefreshCommit, IntrospectList, IntrospectRow, Drop, Crash, Tick, vars, histVars
<1> QED BY <1>2, <1>3

\* A handler that goes on, or waits, keeps what it saw.
LEMMA StillSaw ==
  ASSUME IInv, [Next]_vars, NEW r \in Requests, HandlerSaw(r), tok'[r] = tok[r], before'[r] = before[r],
         pc'[r] = pc[r] \/ <<pc[r], pc'[r]>> \in
           {<<"loaded", "revoking">>, <<"revoking", "issuing">>, <<"issuing", "rotated">>}
  PROVE  HandlerSaw(r)'
<1>1. acked \subseteq acked' /\ held \subseteq held' /\ (RunOut(tok[r]) => RunOut(tok[r])')
  <2>1. \A b \in token_blacklist : b.expires_at \in Nat
    BY DEF IInv, TypeOK
  <2> QED BY <2>1, OnlyGains DEF IInv, RunOut
<1> QED BY <1>1 DEF HandlerSaw, RunOut

\* A handler starts with what was acknowledged by then.
LEMMA BeginSaw ==
  ASSUME IInv, AckInv, [Next]_vars, NEW r \in Requests, NEW t \in Tokens,
         NEW state \in {"loaded", "listed", "unlisted"}, Begin(r, t, state),
         state = "loaded" => t.kind = "refresh" /\ ~RowRevoked(t),
         state = "unlisted" => ~IsTokenRevoked(t) /\ token_blacklist' = token_blacklist /\ now' = now
  PROVE  HandlerSaw(r)'
<1>1. /\ pc'[r] = state /\ tok'[r] = t
      /\ before'[r] = {a.hint : a \in {b \in acked : b.token = t}}
  BY DEF Begin, IInv, TypeOK
<1>2. t \in held /\ acked \subseteq acked' /\ held \subseteq held'
  BY OnlyGains DEF Begin, IInv
<1>3. \A hint \in before'[r] : [token |-> t, hint |-> hint] \in acked
  BY <1>1 DEF IInv, TypeOK
<1>4. before'[r] # {} => Listed(t)
  BY <1>3 DEF AckInv, AcknowledgedIsStored
<1>5. state = "unlisted" => (before'[r] # {} => RunOut(t)')
  <2>1. \A b \in token_blacklist : b.expires_at \in Nat
    BY DEF IInv, TypeOK
  <2> QED BY <1>4, <2>1 DEF IsTokenRevoked, Listed, RunOut, IInv, TypeOK
<1>6. state = "loaded" => "refresh_token" \notin before'[r]
  <2>1. "refresh_token" \in before'[r] /\ t.kind = "refresh" => t.pair \in is_revoked
    BY <1>3 DEF AckInv, AcknowledgedIsStored
  <2> QED BY <2>1 DEF RowRevoked
<1> QED BY <1>1, <1>2, <1>3, <1>5, <1>6 DEF HandlerSaw, RunOut

LEMMA SawStep ==
  ASSUME IInv, AckInv, [Next]_vars, NEW s \in Requests
  PROVE  HandlerSaw(s)'
<1> USE DEF AckInv
<1>1. CASE UNCHANGED <<pc, tok, before>>
  BY <1>1, StillSaw
<1>2. ASSUME NEW r \in Requests, End(r) PROVE HandlerSaw(s)'
  <2>1. CASE s = r
    BY <1>2, <2>1 DEF End, HandlerSaw, IInv, TypeOK
  <2>2. CASE s # r
    <3>1. pc'[s] = pc[s] /\ tok'[s] = tok[s] /\ before'[s] = before[s]
      BY <1>2, <2>2 DEF End, IInv, TypeOK
    <3> QED BY <3>1, StillSaw
  <2> QED BY <2>1, <2>2
<1>3. ASSUME NEW r \in Requests, NEW t \in Tokens, NEW state \in {"loaded", "listed", "unlisted"},
             Begin(r, t, state), r = s => HandlerSaw(r)'
      PROVE  HandlerSaw(s)'
  <2>1. CASE s # r
    <3>1. pc'[s] = pc[s] /\ tok'[s] = tok[s] /\ before'[s] = before[s]
      BY <1>3, <2>1 DEF Begin, IInv, TypeOK
    <3> QED BY <3>1, StillSaw
  <2> QED BY <1>3, <2>1
<1>4. ASSUME NEW r \in Requests, NEW p \in TokenPairs, IssueInsert(r, p) PROVE HandlerSaw(s)'
  <2>1. CASE s = r
    <3>1. pc'[r] = "issued" /\ tok'[r] = tok[r] /\ before'[r] = before[r] /\ acked \subseteq acked'
      BY <1>4, OnlyGains DEF IssueInsert, GoTo, IInv, TypeOK
    <3> QED BY <2>1, <3>1 DEF HandlerSaw
  <2>2. CASE s # r
    <3>1. pc'[s] = pc[s] /\ tok'[s] = tok[s] /\ before'[s] = before[s]
      BY <1>4, <2>2 DEF IssueInsert, GoTo, IInv, TypeOK
    <3> QED BY <3>1, StillSaw
  <2> QED BY <2>1, <2>2
<1>5. ASSUME NEW r \in Requests, NEW t \in Tokens, RefreshLoad(r, t) PROVE HandlerSaw(s)'
  BY <1>3, <1>5, BeginSaw DEF RefreshLoad
<1>6. ASSUME NEW r \in Requests,
             RefreshBegin(r) \/ RefreshCommit(r) \/ \E p \in TokenPairs : RefreshIssue(r, p)
      PROVE  HandlerSaw(s)'
  <2>1. /\ tok' = tok /\ before' = before
        /\ pc'[s] = pc[s] \/ <<pc[s], pc'[s]>> \in
             {<<"loaded", "revoking">>, <<"revoking", "issuing">>, <<"issuing", "rotated">>}
    BY <1>6 DEF RefreshBegin, RefreshCommit, RefreshIssue, GoTo, IInv, TypeOK
  <2> QED BY <2>1, StillSaw
<1>7. ASSUME NEW r \in Requests, NEW t \in Tokens, NEW hint \in Hints, RevokeList(r, t, hint)
      PROVE  HandlerSaw(s)'
  <2>1. CASE hint = "refresh_token"
    BY <1>3, <1>7, <2>1, BeginSaw DEF RevokeList
  <2> QED BY <1>1, <1>7, <2>1 DEF RevokeList
<1>8. ASSUME NEW r \in Requests, NEW t \in Tokens, IntrospectList(r, t) PROVE HandlerSaw(s)'
  BY <1>3, <1>8, BeginSaw DEF IntrospectList, dbVars
<1>9. ASSUME NEW r \in Requests, IntrospectRow(r) PROVE HandlerSaw(s)'
  <2>1. tok' = tok /\ before' = before /\ acked' = acked /\ now' = now /\ token_blacklist' = token_blacklist
    BY <1>9 DEF IntrospectRow, dbVars, histVars
  <2>2. CASE s = r
    <3>1. pc[r] = "unlisted" /\ pc'[r] = "active" /\ ~RowRevoked(tok[r])
      BY <1>9 DEF IntrospectRow, GoTo, IInv, TypeOK
    <3>2. ~(tok[r].kind = "refresh" /\ "refresh_token" \in before[r])
      BY <3>1 DEF HandlerSaw, AcknowledgedIsStored, RowRevoked
    <3> QED BY <2>1, <2>2, <3>1, <3>2 DEF HandlerSaw, RunOut
  <2>3. CASE s # r
    <3>1. pc'[s] = pc[s]
      BY <1>9, <2>3 DEF IntrospectRow, GoTo, IInv, TypeOK
    <3> QED BY <2>1, <3>1, StillSaw
  <2> QED BY <2>2, <2>3
<1>10. CASE Crash
  BY <1>10 DEF Crash, HandlerSaw
<1>11. ASSUME NEW r \in Requests, Reply(r) \/ Answer(r) \/ RevokeMark(r) \/ Drop(r)
       PROVE  HandlerSaw(s)'
  BY <1>2, <1>11 DEF Reply, Answer, RevokeMark, Drop
<1>12. CASE (\E p \in TokenPairs : IssueAccessOnly(p)) \/ Tick \/ UNCHANGED vars
  BY <1>1, <1>12 DEF IssueAccessOnly, Tick, vars
<1> QED BY <1>4, <1>5, <1>6, <1>7, <1>8, <1>9, <1>10, <1>11, <1>12 DEF Next

LEMMA AckHolds == Spec => []AckInv
<1>1. Init => AckInv
  BY DEF Init, AckInv, AcknowledgedIsStored, HandlerSaw
<1>2. IInv /\ AckInv /\ [Next]_vars => AckInv'
  BY StoredStep, SawStep DEF AckInv
<1> QED BY <1>1, <1>2, Invariance, PTL DEF Spec

\* After a revocation was acknowledged, no later introspection finds the token
\* active but for a blacklist row that has run out, and never a refresh token
\* whose row was marked, however requests, restarts and the clock fall.
THEOREM AcknowledgedRevocationsHold == Spec => []AcknowledgedRevocationHolds
<1>1. AckInv => AcknowledgedRevocationHolds
  BY DEF AckInv, HandlerSaw, RunOut, AcknowledgedRevocationHolds
<1> QED BY <1>1, AckHolds, PTL

\* No rotation starts from a refresh token whose revocation was acknowledged
\* before the request came.
THEOREM RevokedNeverRotate == Spec => []NoRotationAfterRevocation
<1>1. AckInv => NoRotationAfterRevocation
  BY DEF AckInv, HandlerSaw, NoRotationAfterRevocation
<1> QED BY <1>1, AckHolds, PTL

-----------------------------------------------------------------------------
(* Refinement of the promise of rotation.                                  *)

LEMMA StepRefines == IInv /\ [Next]_vars => [Promise!Next]_(Promise!vars)
<1> SUFFICES ASSUME IInv, [Next]_vars PROVE [Promise!Next]_(Promise!vars)
  OBVIOUS
<1> USE DEF Tokens, Kinds, Access, Refresh, Promise!vars
<1>1. ASSUME UNCHANGED dbVars, UNCHANGED origin PROVE UNCHANGED Promise!vars
  BY <1>1 DEF dbVars, Asked, Listed
<1>2. ASSUME NEW r \in Requests, NEW p \in TokenPairs, IssueInsert(r, p) PROVE Promise!Issue(p)
  BY <1>2 DEF IssueInsert, Promise!Issue, Promise!Known, Fresh, IInv, TablesConsistent, Asked, Listed, histVars
<1>3. ASSUME NEW r \in Requests, RefreshCommit(r) PROVE Promise!Rotate(tok[r].pair, child[r])
  <2>1. /\ tok[r].pair \in refresh_tokens
        /\ child[r] \in TokenPairs \ refresh_tokens
    BY <1>3 DEF RefreshCommit, GoTo, IInv, HandlersConsistent
  <2>2. Asked' = Asked
    BY <1>3 DEF RefreshCommit, Asked, Listed
  <2>3. child[r] \notin is_revoked
    BY <2>1 DEF IInv, TablesConsistent
  <2> QED BY <1>3, <2>1, <2>2, <2>3 DEF RefreshCommit, Promise!Rotate, Promise!Known
<1>4. ASSUME NEW r \in Requests, NEW t \in Tokens, NEW hint \in Hints, RevokeList(r, t, hint)
      PROVE  Promise!Ask(t.pair) \/ UNCHANGED Promise!vars
  <2>1. UNCHANGED <<refresh_tokens, is_revoked, origin>>
    BY <1>4 DEF RevokeList
  <2>2. t \in held
    BY <1>4 DEF RevokeList, Begin
  <2>3. \A p \in TokenPairs : Listed(Refresh(p))' <=> Listed(Refresh(p)) \/ Refresh(p) = t
    <3> DEFINE row == [jti |-> t, expires_at |-> now + BlacklistTTL]
    <3>1. token_blacklist' = token_blacklist \union {row} /\ row.jti = t
      BY <1>4 DEF RevokeList
    <3> HIDE DEF row
    <3> QED BY <3>1 DEF Listed
  <2>4. CASE t.kind = "refresh"
    <3>1. t = Refresh(t.pair) /\ t.pair \in TokenPairs
      BY <2>4
    <3>2. t.pair \in refresh_tokens
      BY <2>2, <3>1 DEF IInv, HeldIsCommitted
    <3>3. Asked' = Asked \union {t.pair}
      BY <2>3, <3>1 DEF Asked
    <3> QED BY <2>1, <3>2, <3>3 DEF Promise!Ask, Promise!Known
  <2>5. CASE t.kind = "access"
    BY <2>1, <2>3, <2>5 DEF Asked
  <2> QED BY <2>4, <2>5
<1>5. ASSUME NEW r \in Requests, RevokeMark(r)
      PROVE  Promise!Revoke(tok[r].pair) \/ UNCHANGED Promise!vars
  <2>1. UNCHANGED <<refresh_tokens, token_blacklist, origin>>
    BY <1>5 DEF RevokeMark
  <2>2. Asked' = Asked
    BY <2>1 DEF Asked, Listed
  <2>3. tok[r] \in Tokens /\ Listed(tok[r])
    BY <1>5 DEF RevokeMark, IInv, HandlersConsistent
  <2>4. is_revoked' = is_revoked \union MarkedRow(tok[r])
    BY <1>5 DEF RevokeMark
  <2>5. CASE MarkedRow(tok[r]) \subseteq is_revoked
    BY <2>1, <2>2, <2>4, <2>5
  <2>6. CASE ~(MarkedRow(tok[r]) \subseteq is_revoked)
    <3>1. /\ tok[r] = Refresh(tok[r].pair)
          /\ tok[r].pair \in refresh_tokens \ is_revoked
          /\ MarkedRow(tok[r]) = {tok[r].pair}
      BY <2>3, <2>6 DEF MarkedRow
    <3>2. tok[r].pair \in Asked
      BY <2>3, <3>1 DEF Asked
    <3> QED BY <2>1, <2>2, <2>4, <3>1, <3>2 DEF Promise!Revoke
  <2> QED BY <2>5, <2>6
<1>6. CASE UNCHANGED vars
  BY <1>1, <1>6 DEF vars, histVars
<1>7. CASE Crash \/ Tick \/ (\E p \in TokenPairs : IssueAccessOnly(p))
  BY <1>1, <1>7 DEF Crash, Tick, IssueAccessOnly, histVars
<1>8. CASE \E r \in Requests : \/ Reply(r) \/ Answer(r) \/ RefreshBegin(r) \/ IntrospectRow(r) \/ Drop(r)
                             \/ \E p \in TokenPairs : RefreshIssue(r, p)
                             \/ \E t \in Tokens : RefreshLoad(r, t) \/ IntrospectList(r, t)
  BY <1>1, <1>8 DEF Reply, Answer, RefreshBegin, IntrospectRow, Drop, RefreshIssue, RefreshLoad, IntrospectList, histVars
<1>9. CASE \E r \in Requests, p \in TokenPairs : IssueInsert(r, p)
  BY <1>2, <1>9 DEF Promise!Next
<1>10. CASE \E r \in Requests : RefreshCommit(r)
  <2>1. PICK r \in Requests : RefreshCommit(r)
    BY <1>10
  <2>2. tok[r].pair \in TokenPairs /\ child[r] \in TokenPairs
    BY <2>1 DEF RefreshCommit, GoTo, IInv, HandlersConsistent
  <2> QED BY <1>3, <2>1, <2>2 DEF Promise!Next
<1>11. CASE \E r \in Requests, t \in Tokens, hint \in Hints : RevokeList(r, t, hint)
  BY <1>4, <1>11 DEF Promise!Next
<1>12. CASE \E r \in Requests : RevokeMark(r)
  <2>1. PICK r \in Requests : RevokeMark(r)
    BY <1>12
  <2>2. tok[r].pair \in TokenPairs
    BY <2>1 DEF RevokeMark, IInv, HandlersConsistent
  <2> QED BY <1>5, <2>1, <2>2 DEF Promise!Next
<1> QED BY <1>6, <1>7, <1>8, <1>9, <1>10, <1>11, <1>12 DEF Next

\* The token service implements the promise of rotation: for any number of
\* requests, every step is an issue, a rotation, a request for revocation,
\* a revocation somebody asked for, or invisible.
THEOREM Refinement == Spec => RotationRefinesPromise
<1>1. Init => Promise!Init
  BY DEF Init, Promise!Init, Asked, Listed
<1>2. IInv /\ [Next]_vars => [Promise!Next]_(Promise!vars)
  BY StepRefines
<1> QED BY <1>1, <1>2, Invariance, PTL DEF Spec, RotationRefinesPromise, Promise!Spec
=============================================================================
