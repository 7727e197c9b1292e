----------------------------- MODULE MCAuthCode -----------------------------
(* AuthCode for TLC: the symmetry of its model values.                     *)
EXTENDS AuthCode, TLC

Symmetry == Permutations(Requests) \union Permutations(Codes) \union Permutations(Verifiers)
=============================================================================
