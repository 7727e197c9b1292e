------------------------- MODULE MCPermissionCache --------------------------
(* PermissionCache for TLC: the symmetry of its model values.              *)
EXTENDS PermissionCache, TLC

Symmetry == Permutations(Requests) \union Permutations(Users) \union Permutations(Roles)
=============================================================================
