---------------------------- MODULE TokenService ----------------------------
(***************************************************************************)
(* The token service of the OAuth server: issuing token pairs, rotating    *)
(* refresh tokens, revoking and introspecting tokens                       *)
(* (oauth-service/src/services/token_service.rs).                          *)
(*                                                                         *)
(* Every HTTP request is handled by an async task that reaches the SQLite  *)
(* database at its await points; between two of them any other task may    *)
(* run.  A request is therefore a small program with a control state pc,   *)
(* and each action below is the code between two await points that touch   *)
(* shared state.  The tables outlive a restart of the process, the         *)
(* requests do not.                                                        *)
(*                                                                         *)
(* A token pair stands for the two JWTs issue_tokens signs together; a     *)
(* token (its jti claim) is a pair and a kind.  Signatures, claims and the *)
(* hash of the stored token are left out: a client can only present a      *)
(* token it was handed.                                                    *)
(***************************************************************************)
EXTENDS Integers, FiniteSets

CONSTANTS
  Requests,      \* the request tasks that run concurrently
  TokenPairs,    \* the pairs that may ever be signed (bounds the model)
  AccessTTL,     \* lifetime of an access token
  RefreshTTL,    \* lifetime of a refresh token
  BlacklistTTL,  \* how long a blacklist row counts: 3600 seconds in the code
  Leeway,        \* clock leeway of the JWT library: 60 seconds by default
  Calls,         \* the operations clients invoke in this instance
  MaxTime,       \* bound on the clock
  NoPair,        \* "no token pair"
  NoRequest      \* "no request"

ASSUME TTLAssumption ==
  /\ AccessTTL \in Nat /\ RefreshTTL \in Nat /\ BlacklistTTL \in Nat
  /\ Leeway \in Nat /\ MaxTime \in Nat

ASSUME SentinelAssumption == NoPair \notin TokenPairs /\ NoRequest \notin Requests

ASSUME CallsAssumption == Calls \subseteq {"issue", "credentials", "refresh", "revoke", "introspect"}

Kinds  == {"access", "refresh"}
Tokens == [pair : TokenPairs, kind : Kinds]
Access(p)  == [pair |-> p, kind |-> "access"]
Refresh(p) == [pair |-> p, kind |-> "refresh"]
NoToken    == [pair |-> NoPair, kind |-> "none"]

\* The token_type_hint of a revocation; a missing hint counts as
\* "refresh_token" and any other text behaves like "access_token".
Hints == {"access_token", "refresh_token"}

VARIABLES
  now,             \* Utc::now()
  minted,          \* pair -> the time it was signed, or -1
  refresh_tokens,  \* table refresh_tokens: the pairs with a committed row
  is_revoked,      \* column is_revoked: the rows where it is TRUE
  token_blacklist, \* table token_blacklist
  dbWriter,        \* the open write transaction, which holds SQLite's write lock
  pc,              \* request -> where its handler is
  tok,             \* request -> the token it works on
  child,           \* request -> the pair it is issuing
  held,            \* the tokens that clients have received
  origin,          \* history: pair -> the pair whose refresh token was rotated into it
  acked,           \* history: the revocations that returned Ok, with their hint
  before           \* history: request -> hints acknowledged for its token when it began

dbVars   == <<refresh_tokens, is_revoked, token_blacklist>>
histVars == <<origin, acked>>
vars == <<now, minted, dbVars, dbWriter, pc, tok, child, held, histVars, before>>

-----------------------------------------------------------------------------
(* Helpers                                                                 *)

Unminted == -1
Fresh    == {p \in TokenPairs : minted[p] = Unminted}

Expiry(t) == minted[t.pair] + (IF t.kind = "access" THEN AccessTTL ELSE RefreshTTL)

\* jwt::verify_token: the exp claim, with the leeway; the signature is checked
\* for HS256, the default algorithm, and the one configured here.
Verifies(t) == now <= Expiry(t) + Leeway

Listed(t) == \E b \in token_blacklist : b.jti = t

\* Mutant of IsTokenRevoked: the expiry comparison is the wrong way round.
IsTokenRevokedSwapped(t) == \E b \in token_blacklist : b.jti = t /\ b.expires_at < now

\* is_token_revoked: only rows that have not expired count.
IsTokenRevoked(t) == \E b \in token_blacklist : b.jti = t /\ b.expires_at > now

RowRevoked(t) == t.kind = "refresh" /\ t.pair \in is_revoked

\* A request arrives with token t; the history remembers what had already
\* been acknowledged about t.
Begin(r, t, state) ==
  /\ pc[r] = "idle"
  /\ t \in held
  /\ pc' = [pc EXCEPT ![r] = state]
  /\ tok' = [tok EXCEPT ![r] = t]
  /\ before' = [before EXCEPT ![r] = {a.hint : a \in {b \in acked : b.token = t}}]

GoTo(r, from, to) == pc[r] = from /\ pc' = [pc EXCEPT ![r] = to]

\* The handler is finished and its local state is gone.
End(r) ==
  /\ pc' = [pc EXCEPT ![r] = "idle"]
  /\ tok' = [tok EXCEPT ![r] = NoToken]
  /\ child' = [child EXCEPT ![r] = NoPair]
  /\ before' = [before EXCEPT ![r] = {}]

-----------------------------------------------------------------------------
Init ==
  /\ now = 0
  /\ minted = [p \in TokenPairs |-> Unminted]
  /\ refresh_tokens = {} /\ is_revoked = {} /\ token_blacklist = {}
  /\ dbWriter = NoRequest
  /\ pc = [r \in Requests |-> "idle"]
  /\ tok = [r \in Requests |-> NoToken]
  /\ child = [r \in Requests |-> NoPair]
  /\ held = {} /\ acked = {}
  /\ origin = [p \in TokenPairs |-> NoPair]
  /\ before = [r \in Requests |-> {}]

(* issue_tokens for a user: sign the pair and INSERT the refresh token,    *)
(* outside any transaction.  The user lookup for the ID token and the      *)
(* response are still to come.                                             *)
IssueInsert(r, p) ==
  /\ "issue" \in Calls
  /\ GoTo(r, "idle", "issued")
  /\ p \in Fresh
  /\ dbWriter = NoRequest
  /\ minted' = [minted EXCEPT ![p] = now]
  /\ refresh_tokens' = refresh_tokens \union {p}
  /\ child' = [child EXCEPT ![r] = p]
  /\ UNCHANGED <<now, is_revoked, token_blacklist, dbWriter, tok, held, histVars, before>>

(* issue_tokens without a user (client credentials): an access token only. *)
IssueAccessOnly(p) ==
  /\ "credentials" \in Calls
  /\ p \in Fresh
  /\ minted' = [minted EXCEPT ![p] = now]
  /\ held' = held \union {Access(p)}
  /\ UNCHANGED <<now, dbVars, dbWriter, pc, tok, child, histVars, before>>

Replying == {"issued", "rotated"}

(* The response of an issue or a rotation reaches the client.              *)
Reply(r) ==
  /\ pc[r] \in Replying
  /\ End(r)
  /\ held' = held \union {Access(child[r]), Refresh(child[r])}
  /\ UNCHANGED <<now, minted, dbVars, dbWriter, histVars>>

(* An introspection has answered "active"; refusals end in Drop.           *)
Answer(r) ==
  /\ pc[r] = "active"
  /\ End(r)
  /\ UNCHANGED <<now, minted, dbVars, dbWriter, held, histVars>>

(* refresh_token, steps 1 and 2: verify the JWT and read its row on the    *)
(* pool, outside the transaction that will revoke it.                      *)
RefreshLoad(r, t) ==
  /\ "refresh" \in Calls
  /\ Begin(r, t, "loaded")
  /\ Verifies(t)
  /\ t.kind = "refresh" /\ t.pair \in refresh_tokens
  /\ ~RowRevoked(t)
  /\ now <= Expiry(t)
  /\ UNCHANGED <<now, minted, dbVars, dbWriter, child, held, histVars>>

\* Mutant of RefreshBegin: the UPDATE runs on the pool, not in the transaction.
RefreshBeginOnPool(r) ==
  /\ GoTo(r, "loaded", "revoking")
  /\ dbWriter = NoRequest
  /\ dbWriter' = r
  /\ is_revoked' = is_revoked \union {tok[r].pair}
  /\ UNCHANGED <<now, minted, refresh_tokens, token_blacklist, tok, child, held, histVars, before>>

(* refresh_token, step 3: BEGIN and the UPDATE that revokes the old row.   *)
(* The UPDATE is the transaction's first statement and takes the write     *)
(* lock; nobody else sees its effect before COMMIT.                        *)
RefreshBegin(r) ==
  /\ GoTo(r, "loaded", "revoking")
  /\ dbWriter = NoRequest
  /\ dbWriter' = r
  /\ UNCHANGED <<now, minted, dbVars, tok, child, held, histVars, before>>

(* issue_tokens_tx: sign the new pair, INSERT its row in the transaction.  *)
RefreshIssue(r, p) ==
  /\ GoTo(r, "revoking", "issuing")
  /\ p \in Fresh
  /\ minted' = [minted EXCEPT ![p] = now]
  /\ child' = [child EXCEPT ![r] = p]
  /\ UNCHANGED <<now, dbVars, dbWriter, tok, held, histVars, before>>

(* COMMIT: the old row's revocation and the new row appear together.       *)
RefreshCommit(r) ==
  /\ GoTo(r, "issuing", "rotated")
  /\ dbWriter' = NoRequest
  /\ is_revoked' = is_revoked \union {tok[r].pair}
  /\ refresh_tokens' = refresh_tokens \union {child[r]}
  /\ origin' = [origin EXCEPT ![child[r]] = tok[r].pair]
  /\ UNCHANGED <<now, minted, token_blacklist, tok, child, held, acked, before>>

(* revoke_token, step 3: INSERT into the blacklist, whose jti is UNIQUE.   *)
(* With another hint than refresh_token that is all, and the call is Ok.   *)
RevokeList(r, t, hint) ==
  /\ "revoke" \in Calls
  /\ IF hint = "refresh_token" THEN Begin(r, t, "listed")
     ELSE pc[r] = "idle" /\ t \in held /\ UNCHANGED <<pc, tok, before>>
  /\ Verifies(t)
  /\ dbWriter = NoRequest
  /\ ~Listed(t)
  /\ token_blacklist' = token_blacklist \union {[jti |-> t, expires_at |-> now + BlacklistTTL]}
  /\ acked' = IF hint = "refresh_token" THEN acked
              ELSE acked \union {[token |-> t, hint |-> hint]}
  /\ UNCHANGED <<now, minted, refresh_tokens, is_revoked, dbWriter, child, held, origin>>

\* Mutant of MarkedRow: the UPDATE matches on the wrong column and hits no row.
MarkedRowMissed(t) == {}

\* The rows the UPDATE of revoke_token matches.
MarkedRow(t) == IF t.kind = "refresh" THEN {t.pair} \intersect refresh_tokens ELSE {}

(* revoke_token, step 4: a second statement marks the row, if there is one.*)
RevokeMark(r) ==
  /\ pc[r] = "listed"
  /\ End(r)
  /\ dbWriter = NoRequest
  /\ is_revoked' = is_revoked \union MarkedRow(tok[r])
  /\ acked' = acked \union {[token |-> tok[r], hint |-> "refresh_token"]}
  /\ UNCHANGED <<now, minted, refresh_tokens, token_blacklist, dbWriter, held, origin>>

(* introspect_token, steps 1 and 2: the JWT, then the blacklist.  A refusal *)
(* changes nothing and is not a step.                                      *)
IntrospectList(r, t) ==
  /\ "introspect" \in Calls
  /\ Begin(r, t, "unlisted")
  /\ Verifies(t)
  /\ ~IsTokenRevoked(t)
  /\ UNCHANGED <<now, minted, dbVars, dbWriter, child, held, histVars>>

(* introspect_token, step 3: the refresh_tokens row with this jti, if any. *)
IntrospectRow(r) ==
  /\ GoTo(r, "unlisted", "active")
  /\ ~RowRevoked(tok[r])
  /\ UNCHANGED <<now, minted, dbVars, dbWriter, tok, child, held, histVars, before>>

(* The handler returns an error, an await fails, or the connection is gone *)
(* and the handler is dropped: an open transaction rolls back, committed   *)
(* statements stay.                                                        *)
Drop(r) ==
  /\ pc[r] # "idle"
  /\ End(r)
  /\ dbWriter' = IF dbWriter = r THEN NoRequest ELSE dbWriter
  /\ minted' = IF pc[r] = "issuing" THEN [minted EXCEPT ![child[r]] = Unminted] ELSE minted
  /\ UNCHANGED <<now, dbVars, held, histVars>>

(* The process stops and starts again: only the database is left.          *)
Crash ==
  /\ \E r \in Requests : pc[r] # "idle"
  /\ pc' = [r \in Requests |-> "idle"]
  /\ dbWriter' = NoRequest
  /\ minted' = [p \in TokenPairs |->
       IF \E r \in Requests : pc[r] = "issuing" /\ child[r] = p THEN Unminted ELSE minted[p]]
  /\ tok' = [r \in Requests |-> NoToken]
  /\ child' = [r \in Requests |-> NoPair]
  /\ before' = [r \in Requests |-> {}]
  /\ UNCHANGED <<now, dbVars, held, histVars>>

Tick ==
  /\ now < MaxTime
  /\ now' = now + 1
  /\ UNCHANGED <<minted, dbVars, dbWriter, pc, tok, child, held, histVars, before>>

Next ==
  \/ \E r \in Requests, p \in TokenPairs : IssueInsert(r, p)
  \/ \E p \in TokenPairs : IssueAccessOnly(p)
  \/ \E r \in Requests : Reply(r)
  \/ \E r \in Requests : Answer(r)
  \/ \E r \in Requests, t \in Tokens : RefreshLoad(r, t)
  \/ \E r \in Requests : RefreshBegin(r)
  \/ \E r \in Requests, p \in TokenPairs : RefreshIssue(r, p)
  \/ \E r \in Requests : RefreshCommit(r)
  \/ \E r \in Requests, t \in Tokens, hint \in Hints : RevokeList(r, t, hint)
  \/ \E r \in Requests : RevokeMark(r)
  \/ \E r \in Requests, t \in Tokens : IntrospectList(r, t)
  \/ \E r \in Requests : IntrospectRow(r)
  \/ \E r \in Requests : Drop(r)
  \/ Crash
  \/ Tick

Spec == Init /\ [][Next]_vars

-----------------------------------------------------------------------------
(* Properties                                                              *)

States == {"idle", "issued", "loaded", "revoking", "issuing", "rotated",
           "listed", "unlisted", "active"}

\* Type invariant of the tables, the request tasks and the history.
TypeOK ==
  /\ now \in Nat
  /\ minted \in [TokenPairs -> Int]
  /\ refresh_tokens \subseteq TokenPairs
  /\ is_revoked \subseteq TokenPairs
  /\ token_blacklist \subseteq [jti : Tokens, expires_at : Nat]
  /\ dbWriter \in Requests \union {NoRequest}
  /\ pc \in [Requests -> States]
  /\ tok \in [Requests -> Tokens \union {NoToken}]
  /\ child \in [Requests -> TokenPairs \union {NoPair}]
  /\ held \subseteq Tokens
  /\ origin \in [TokenPairs -> TokenPairs \union {NoPair}]
  /\ acked \subseteq [token : Tokens, hint : Hints]
  /\ before \in [Requests -> SUBSET Hints]

\* Rotation is atomic: whenever a row exists that was rotated out of another
\* one, that other row is revoked ("Use transaction to ensure atomicity:
\* revoke old token and issue new tokens").
RotationAtomic ==
  \A p \in refresh_tokens : origin[p] # NoPair => origin[p] \in is_revoked

\* No session is lost half-way: a row is revoked only because its successor
\* is committed or because somebody asked for its revocation.  An aborted
\* rotation, a dropped handler or a crash never leaves a token revoked with
\* nothing in its place.
RevocationExplained ==
  \A q \in is_revoked :
    \/ \E p \in refresh_tokens : origin[p] = q
    \/ Listed(Refresh(q))

\* A client never holds a refresh token the database does not know: the row
\* is committed before the response leaves, so a crash cannot undo it.
HeldIsCommitted ==
  \A p \in TokenPairs : Refresh(p) \in held => p \in refresh_tokens

\* Once a revocation has been acknowledged, an introspection that begins
\* afterwards answers "active" only when the blacklist row has run out, and
\* never for a refresh token whose row the revocation marked.
AcknowledgedRevocationHolds ==
  \A r \in Requests : pc[r] = "active" /\ before[r] # {} =>
    /\ \E b \in token_blacklist : b.jti = tok[r] /\ b.expires_at <= now
    /\ ~(tok[r].kind = "refresh" /\ "refresh_token" \in before[r])

\* A rotation never starts from a refresh token whose revocation, with the
\* right hint, was acknowledged before the request came in.
NoRotationAfterRevocation ==
  \A r \in Requests :
    pc[r] \in {"loaded", "revoking", "issuing", "rotated"} => "refresh_token" \notin before[r]

-----------------------------------------------------------------------------
(* Refinement.  The tables implement the promise of RotationPromise; the   *)
(* blacklist is the record of who asked for a revocation.                  *)

Asked == {p \in TokenPairs : Listed(Refresh(p))}

Promise == INSTANCE RotationPromise WITH
  live <- refresh_tokens \ is_revoked, spent <- is_revoked, asked <- Asked

\* Every step of the token service is a step of the promise in which a
\* rotation may also start from a token that is already spent: the old row
\* is revoked and the new one appears in the same step.
RotationRefinesPromise == Promise!Spec
=============================================================================
