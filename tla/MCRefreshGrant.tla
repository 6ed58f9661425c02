--------------------------- MODULE MCRefreshGrant ---------------------------
(* Model-checking instances of RefreshGrant: requests are interchangeable. *)
EXTENDS RefreshGrant, TLC

Symmetry == Permutations(Req)
=============================================================================
