--------------------------- MODULE MCUserAccount ----------------------------
(* UserAccount for TLC: the tight bound on guesses.                        *)
EXTENDS UserAccount, FiniteSets, Combinatorics

\* The ways to choose a multiset of at most Cardinality(Requests) counts, not
\* all of them zero: each failure spends one.
MultisetBound == choose(MaxAttempts + Cardinality(Requests), Cardinality(Requests)) - 1
=============================================================================
