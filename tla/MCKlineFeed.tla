----------------------------- MODULE MCKlineFeed -----------------------------
(* KlineFeed for TLC.                                                      *)
EXTENDS KlineFeed, TLC

Symmetry == Permutations(Clients) \union Permutations(Topics)
=============================================================================
