--------------------------- MODULE MCTokenService ---------------------------
(* TokenService for TLC: the symmetry of its model values.                 *)
EXTENDS TokenService, TLC

Symmetry == Permutations(Requests) \union Permutations(TokenPairs)
=============================================================================
