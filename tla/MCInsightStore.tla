--------------------------- MODULE MCInsightStore ---------------------------
(* Model-checking instances of InsightStore: two contents, of which the      *)
(* first links to every key and the second to none.                          *)
EXTENDS InsightStore, TLC

CONSTANTS c1, c2

MCTargets(c) == IF c = c1 THEN Key ELSE {}

Symmetry == Permutations(Tx) \cup Permutations(Id)
=============================================================================
