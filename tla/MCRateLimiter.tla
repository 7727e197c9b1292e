--------------------------- MODULE MCRateLimiter ----------------------------
(* RateLimiter for TLC.                                                    *)
EXTENDS RateLimiter, TLC

Symmetry == Permutations(Calls) \cup Permutations(Keys)
=============================================================================
