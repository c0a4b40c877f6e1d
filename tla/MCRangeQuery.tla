------------------------------ MODULE MCRangeQuery -----------------------------
(***************************************************************************)
(* A ladder with the gaps of BUCKETS (factors of 2, 2.5, 2, 1.5 and 2),    *)
(* scaled down, and a table filled at the finest interval.                 *)
(***************************************************************************)
EXTENDS RangeQuery

MCBuckets == <<2, 4, 10, 20, 30>>

================================================================================
