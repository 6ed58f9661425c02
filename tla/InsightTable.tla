---------------------------- MODULE InsightTable ----------------------------
(***************************************************************************)
(* What the modules that read the insights table share.                    *)
(***************************************************************************)
EXTENDS Integers, FiniteSets

CONSTANTS
    Insight,  \* insight ids, ordered
    None      \* no row

ASSUME InsightAssumption == Insight \subseteq Nat /\ IsFiniteSet(Insight)
=============================================================================
