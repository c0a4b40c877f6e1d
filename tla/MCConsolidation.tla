---------------------------- MODULE MCConsolidation ----------------------------
(***************************************************************************)
(* A ladder of two tiers with the shape of TIER_TRANSITIONS: the second    *)
(* bucket a multiple of the first, the thresholds growing.                 *)
(***************************************************************************)
EXTENDS Consolidation

CONSTANTS w1, w2

MCTiers == <<[bucket |-> 2, threshold |-> 1], [bucket |-> 4, threshold |-> 2]>>

================================================================================
