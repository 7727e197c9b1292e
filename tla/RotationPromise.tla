-------------------------- MODULE RotationPromise ---------------------------
(***************************************************************************)
(* What refresh-token rotation promises, without requests, transactions or *)
(* a clock: a refresh token is live, then spent; a rotation spends one and *)
(* creates its successor in one step; apart from a rotation a token is     *)
(* spent only after somebody asked for its revocation.                     *)
(*                                                                         *)
(* A spent token may be rotated once more: that is all the code guarantees *)
(* when two rotations of the same token run concurrently, and less than    *)
(* the one-time use the project's tests describe.                          *)
(***************************************************************************)
EXTENDS FiniteSets

CONSTANTS TokenPairs, NoPair

VARIABLES
  live,    \* tokens that can be used
  spent,   \* tokens that were rotated or revoked
  asked,   \* tokens whose revocation somebody asked for
  origin   \* token -> the token it replaces

vars == <<live, spent, asked, origin>>

Known == live \union spent

Init ==
  /\ live = {} /\ spent = {} /\ asked = {}
  /\ origin = [p \in TokenPairs |-> NoPair]

Issue(p) ==
  /\ p \notin Known
  /\ live' = live \union {p}
  /\ UNCHANGED <<spent, asked, origin>>

Rotate(q, p) ==
  /\ q \in Known
  /\ p \notin Known
  /\ live' = (live \ {q}) \union {p}
  /\ spent' = spent \union {q}
  /\ origin' = [origin EXCEPT ![p] = q]
  /\ UNCHANGED asked

Ask(q) ==
  /\ q \in Known
  /\ asked' = asked \union {q}
  /\ UNCHANGED <<live, spent, origin>>

Revoke(q) ==
  /\ q \in live \intersect asked
  /\ live' = live \ {q}
  /\ spent' = spent \union {q}
  /\ UNCHANGED <<asked, origin>>

Next ==
  \/ \E p \in TokenPairs : Issue(p) \/ Ask(p) \/ Revoke(p)
  \/ \E q, p \in TokenPairs : Rotate(q, p)

Spec == Init /\ [][Next]_vars
=============================================================================
