------------------------------ MODULE AuthCode ------------------------------
(***************************************************************************)
(* Authorization codes: creating a code, and the authorization_code grant  *)
(* that consumes it and issues tokens                                      *)
(* (oauth-service/src/services/auth_code_service.rs and                    *)
(* handle_authorization_code_grant in routes/oauth.rs).                    *)
(*                                                                         *)
(* find_and_consume_code is one transaction, SELECT then UPDATE, started   *)
(* with a deferred BEGIN.  SQLite lets at most one transaction write, and  *)
(* lets a transaction that has read go on to write only if nothing was     *)
(* committed since it read: otherwise the UPDATE fails and the handler     *)
(* returns an error.  PKCE and the client are checked after COMMIT.        *)
(*                                                                         *)
(* A challenge is the verifier it was derived from (SHA-256 and base64url  *)
(* are injective here), or NoChallenge when the client sent none.          *)
(***************************************************************************)
EXTENDS Naturals, FiniteSets

CONSTANTS
  Requests,     \* the concurrent token requests
  Codes,        \* the codes that may be generated (bounds the model)
  Clients,      \* registered clients
  Public,       \* those of type PUBLIC
  Verifiers,    \* PKCE code verifiers
  NoChallenge,  \* the empty code_challenge
  NoRow,        \* "no such code in the table"
  NoRequest,    \* "no request"
  NoAsk         \* what an idle handler works on

ASSUME CodeAssumption ==
  /\ Public \subseteq Clients
  /\ NoChallenge \notin Verifiers
  /\ NoRequest \notin Requests
  /\ NoRow \notin [client : Clients, challenge : Verifiers \union {NoChallenge}]
  /\ NoAsk \notin [code : Codes, client : Clients, verifier : Verifiers]

Rows == [client : Clients, challenge : Verifiers \union {NoChallenge}]
Asks == [code : Codes, client : Clients, verifier : Verifiers]

VARIABLES
  authorization_codes,  \* table: code -> its row, or NoRow
  is_used,              \* column is_used: the codes where it is TRUE
  expired,              \* the codes whose expires_at has passed
  writer,               \* the open write transaction
  stale,                \* requests that have read and whose snapshot is outdated
  pc,                   \* request -> where its handler is
  ask,                  \* request -> what it presents
  redemptions,          \* code -> how often tokens were issued for it
  spoilt                \* history: codes whose redemption failed after COMMIT

tables == <<authorization_codes, is_used, expired>>
outcome == <<redemptions, spoilt>>
vars == <<tables, writer, stale, pc, ask, outcome>>

GoTo(r, from, to) == pc[r] = from /\ pc' = [pc EXCEPT ![r] = to]

End(r) ==
  /\ pc' = [pc EXCEPT ![r] = "idle"]
  /\ ask' = [ask EXCEPT ![r] = NoAsk]

\* Every open read transaction has an outdated snapshot from now on.
Commit(r) == stale' = {s \in Requests \ {r} : pc[s] = "read"}

-----------------------------------------------------------------------------
Init ==
  /\ authorization_codes = [c \in Codes |-> NoRow]
  /\ is_used = {} /\ expired = {}
  /\ writer = NoRequest /\ stale = {}
  /\ pc = [r \in Requests |-> "idle"]
  /\ ask = [r \in Requests |-> NoAsk]
  /\ redemptions = [c \in Codes |-> 0] /\ spoilt = {}

(* create_auth_code: a public client needs a challenge, a confidential one *)
(* may leave it empty.                                                     *)
CreateCode(c, client, challenge) ==
  /\ authorization_codes[c] = NoRow
  /\ client \in Public => challenge # NoChallenge
  /\ writer = NoRequest
  /\ authorization_codes' = [authorization_codes EXCEPT ![c] =
                               [client |-> client, challenge |-> challenge]]
  /\ Commit(NoRequest)
  /\ UNCHANGED <<is_used, expired, writer, pc, ask, outcome>>

(* find_and_consume_code, steps 1 to 4: BEGIN, SELECT the row, check it.   *)
ReadCode(r, a) ==
  /\ GoTo(r, "idle", "read")
  /\ authorization_codes[a.code] # NoRow
  /\ a.code \notin is_used
  /\ a.code \notin expired
  /\ ask' = [ask EXCEPT ![r] = a]
  /\ stale' = stale \ {r}
  /\ UNCHANGED <<tables, writer, outcome>>

\* Mutant of MarkUsed: SELECT and UPDATE run on the pool, each on its own.
MarkUsedOnPool(r) ==
  /\ GoTo(r, "read", "marked")
  /\ is_used' = is_used \union {ask[r].code}
  /\ Commit(r)
  /\ UNCHANGED <<authorization_codes, expired, writer, ask, outcome>>

(* Step 5: the UPDATE, visible to nobody else before COMMIT.               *)
MarkUsed(r) ==
  /\ GoTo(r, "read", "marked")
  /\ writer = NoRequest /\ r \notin stale
  /\ writer' = r
  /\ UNCHANGED <<tables, stale, ask, outcome>>

CommitUsed(r) ==
  /\ GoTo(r, "marked", "consumed")
  /\ is_used' = is_used \union {ask[r].code}
  /\ writer' = NoRequest
  /\ Commit(r)
  /\ UNCHANGED <<authorization_codes, expired, ask, outcome>>

\* verify_pkce and the client comparison, both on the row read in the transaction.
Rightful(a) ==
  /\ a.verifier = authorization_codes[a.code].challenge
  /\ a.client = authorization_codes[a.code].client

(* issue_tokens for the code's user: one INSERT on the pool.               *)
Grant(r) ==
  /\ GoTo(r, "consumed", "granted")
  /\ Rightful(ask[r])
  /\ writer = NoRequest
  /\ redemptions' = [redemptions EXCEPT ![ask[r].code] = @ + 1]
  /\ Commit(r)
  /\ UNCHANGED <<tables, writer, ask, spoilt>>

(* The tokens reach the client.                                            *)
Reply(r) ==
  /\ pc[r] = "granted"
  /\ End(r)
  /\ UNCHANGED <<tables, writer, stale, outcome>>

(* The handler returns an error (PKCE or client mismatch, the permission   *)
(* lookup, a busy database) or is dropped: an open transaction rolls back, *)
(* a committed consumption stays.                                          *)
Fail(r) ==
  /\ pc[r] \notin {"idle", "granted"}
  /\ End(r)
  /\ writer' = IF writer = r THEN NoRequest ELSE writer
  /\ stale' = stale \ {r}
  /\ spoilt' = IF pc[r] = "consumed" THEN spoilt \union {ask[r].code} ELSE spoilt
  /\ UNCHANGED <<tables, redemptions>>

(* The process stops and restarts: only the tables are left.               *)
Crash ==
  /\ \E r \in Requests : pc[r] # "idle"
  /\ pc' = [r \in Requests |-> "idle"]
  /\ ask' = [r \in Requests |-> NoAsk]
  /\ writer' = NoRequest /\ stale' = {}
  /\ spoilt' = spoilt \union {ask[r].code : r \in {s \in Requests : pc[s] = "consumed"}}
  /\ UNCHANGED <<tables, redemptions>>

(* Ten minutes have passed since the code was created.                     *)
Expire(c) ==
  /\ authorization_codes[c] # NoRow /\ c \notin expired
  /\ expired' = expired \union {c}
  /\ UNCHANGED <<authorization_codes, is_used, writer, stale, pc, ask, outcome>>

Next ==
  \/ \E c \in Codes, k \in Clients, h \in Verifiers \union {NoChallenge} : CreateCode(c, k, h)
  \/ \E r \in Requests, a \in Asks : ReadCode(r, a)
  \/ \E r \in Requests : MarkUsed(r)
  \/ \E r \in Requests : CommitUsed(r)
  \/ \E r \in Requests : Grant(r)
  \/ \E r \in Requests : Reply(r)
  \/ \E r \in Requests : Fail(r)
  \/ Crash
  \/ \E c \in Codes : Expire(c)

Spec == Init /\ [][Next]_vars

-----------------------------------------------------------------------------
(* Properties                                                              *)

\* Type invariant of the table (its columns belong to existing rows), the
\* handlers and the history.
TypeOK ==
  /\ authorization_codes \in [Codes -> Rows \union {NoRow}]
  /\ is_used \union expired \subseteq {c \in Codes : authorization_codes[c] # NoRow}
  /\ writer \in Requests \union {NoRequest}
  /\ stale \subseteq Requests
  /\ pc \in [Requests -> {"idle", "read", "marked", "consumed", "granted"}]
  /\ ask \in [Requests -> Asks \union {NoAsk}]
  /\ redemptions \in [Codes -> Nat]
  /\ spoilt \subseteq Codes

\* A code is redeemed at most once, however many requests present it at the
\* same time ("prevents reuse attacks", "one-time use enforcement").
OneRedemption == \A c \in Codes : redemptions[c] <= 1

\* The requests that have consumed the code and not answered yet.
InHand(c) == {r \in Requests : pc[r] = "consumed" /\ ask[r].code = c}

\* A consumed code has exactly one fate: one request, and no other, is about to
\* redeem it; it has given tokens once; or its consumption was in vain, because
\* the request failed or was refused after COMMIT.  Concurrency alone burns no
\* code, and one that a refused request (another client's, or with another
\* verifier) has used up never gives tokens to the request it was meant for.
BurntIsExplained ==
  \A c \in is_used :
    \/ InHand(c) = {} /\ redemptions[c] = 1 /\ c \notin spoilt
    \/ InHand(c) = {} /\ redemptions[c] = 0 /\ c \in spoilt
    \/ redemptions[c] = 0 /\ c \notin spoilt /\ \E r \in Requests : InHand(c) = {r}

-----------------------------------------------------------------------------
(* Refinement: the table implements the one-shot code.                     *)

Promise == INSTANCE OneShotCode WITH
  status <- [c \in Codes |->
    IF authorization_codes[c] = NoRow THEN "none"
    ELSE IF c \in is_used THEN "consumed" ELSE "open"]

\* Every step of the grant is a step of the one-shot code: codes are only
\* redeemed after their consumption was committed, and once.
RefinesOneShotCode == Promise!Spec
=============================================================================
