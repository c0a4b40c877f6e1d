------------------------------- MODULE RangeQuery ------------------------------
(***************************************************************************)
(* GET /api/metrics: handler_metrics settles the range and the number of   *)
(* points, counts the rows in that range, lets pick_bucket choose a bucket *)
(* size and reads the rows grouped by it (src/http.c, src/downsample.c,    *)
(* src/db.c).  The count and the read are two queries, each with a cutoff  *)
(* of its own, and the daemon stores samples in between.                   *)
(*                                                                         *)
(* A row is its timestamp, a point the timestamp it is given.              *)
(***************************************************************************)
EXTENDS Integers, FiniteSets

CONSTANTS
    NumBuckets,    \* NBUCKETS
    Buckets,       \* BUCKETS, in ascending order
    Intervals,     \* the collect intervals a configuration may have
    Ranges,        \* cfg->ranges, in seconds
    FirstRange,    \* cfg->ranges[0]
    DefaultPoints, \* what pick_bucket takes for a missing `points`
    MaxPoints,     \* the cap on `points`
    OldIntervals,  \* the intervals it may have had before
    Start,         \* the wall clock when the model starts
    MaxNow         \* bound on the wall clock

Dividing(interval) == {k \in 1..NumBuckets : Buckets[k] % interval = 0}

ASSUME RangeAssumption ==
    /\ NumBuckets \in Nat
    /\ Buckets \in [1..NumBuckets -> Nat \ {0}]
    /\ \A j, k \in 1..NumBuckets : j < k => Buckets[j] < Buckets[k]
    /\ Intervals \subseteq Nat \ {0}
    /\ Ranges \subseteq Nat \ {0} /\ FirstRange \in Ranges
    /\ DefaultPoints \in Nat \ {0}
    /\ MaxPoints \in Nat \ {0}
    /\ Start \in Nat /\ MaxNow \in Nat
    /\ OldIntervals \subseteq Nat \ {0}

VARIABLES
    interval,   \* cfg->interval_seconds
    now,        \* the wall clock
    rows,       \* the timestamps in the metrics table
    pc,         \* where the handler is
    range,      \* rsec
    points,     \* points, pick_bucket's default in place
    i,          \* pick_bucket's loop index
    best,       \* its best bucket so far, 0 for none
    best_diff,  \* how far that one is from the number of points
    bucket,     \* the bucket size chosen, 0 for raw
    late,       \* ghost: rows stored since the count
    answer      \* the timestamps of the points answered

vars == <<interval, now, rows, pc, range, points, i, best, best_diff, bucket,
          late, answer>>

pick == <<i, best, best_diff>>
table == <<interval, now, rows>>

(* A table filled at one interval since the epoch. *)
History(step) == {t \in 0..Start : t % step = 0}

Init ==
    /\ interval \in Intervals
    /\ now = Start
    /\ \/ rows = {}
       \/ \E old \in OldIntervals \cup {interval} : rows = History(old)
    /\ pc = "idle"
    /\ range = FirstRange
    /\ points = DefaultPoints
    /\ i = 1 /\ best = 0 /\ best_diff = 0
    /\ bucket = 0
    /\ late = 0
    /\ answer = {}

(* db_insert, one interval after the last; or that cycle failed. *)
Collect ==
    /\ now + interval <= MaxNow
    /\ now' = now + interval
    /\ \/ rows' = rows \cup {now'} /\ late' = late + 1
       \/ UNCHANGED <<rows, late>>
    /\ UNCHANGED <<interval, pc, range, points, pick, bucket, answer>>

(* `points` as given, at most the cap; the default when it is missing or   *)
(* no positive number.                                                     *)
Points(p) ==
    IF p <= 0 THEN DefaultPoints ELSE IF p > MaxPoints THEN MaxPoints ELSE p

(* A range that is not configured is taken as the first one. *)
Request(r, p) ==
    /\ pc = "idle"
    /\ pc' = "count"
    /\ range' = IF r \in Ranges THEN r ELSE FirstRange
    /\ points' = Points(p)
    /\ answer' = {}
    /\ UNCHANGED <<table, pick, bucket, late>>

(* The rows not older than iso_cutoff(range). *)
InRange == {t \in rows : t >= now - range}

(* pick_bucket, up to its loop: raw when there are few rows, or when the   *)
(* interval is coarse enough already.                                      *)
FewRows == Cardinality(InRange) <= points

CoarseEnough == range \div points <= interval

Start_pick(raw) ==
    /\ pc = "count"
    /\ pc' = IF raw THEN "query" ELSE "pick"
    /\ bucket' = 0
    /\ i' = 1 /\ best' = 0 /\ best_diff' = 0
    /\ late' = 0
    /\ UNCHANGED <<table, range, points, answer>>

Count == Start_pick(FewRows \/ CoarseEnough)

(* Mutant: -1 is taken for few rows. *)
CountFails_Raw == Start_pick(TRUE)

(* db_count_range failed, with -1: the number of rows is not looked at. *)
CountFails == Start_pick(CoarseEnough)

(* How many points bucket k makes of the range, and how far that is from   *)
(* the number asked for.                                                   *)
Yield(k) == range \div Buckets[k]

Diff(k) == IF Yield(k) >= points THEN Yield(k) - points ELSE points - Yield(k)

(* Mutant: `<` for `<=`, so that a tie goes to the coarser bucket. *)
Better_OnTie(k) == best = 0 \/ Diff(k) <= best_diff

(* Mutant: the first bucket the interval divides is taken. *)
Better_FirstOnly(k) == best = 0

Better(k) == best = 0 \/ Diff(k) < best_diff

(* One turn of the loop. *)
Look ==
    /\ pc = "pick" /\ i <= NumBuckets
    /\ IF i \in Dividing(interval) /\ Better(i)
       THEN best' = i /\ best_diff' = Diff(i)
       ELSE UNCHANGED <<best, best_diff>>
    /\ i' = i + 1
    /\ UNCHANGED <<table, pc, range, points, bucket, late, answer>>

Chosen ==
    /\ pc = "pick" /\ i > NumBuckets
    /\ pc' = "query"
    /\ bucket' = IF best > 0 THEN Buckets[best] ELSE interval
    /\ UNCHANGED <<table, range, points, pick, late, answer>>

(* db_query_range: the rows as they are, or one point for each bucket that *)
(* has any, stamped at its start.                                          *)
Query ==
    /\ pc = "query"
    /\ pc' = "answered"
    /\ answer' = IF bucket = 0 THEN InRange
                 ELSE {(t \div bucket) * bucket : t \in InRange}
    /\ UNCHANGED <<table, range, points, pick, bucket, late>>

(* It failed: a 500. *)
QueryFails ==
    /\ pc = "query"
    /\ pc' = "idle"
    /\ UNCHANGED <<table, range, points, pick, bucket, late, answer>>

Answered ==
    /\ pc = "answered"
    /\ pc' = "idle"
    /\ UNCHANGED <<table, range, points, pick, bucket, late, answer>>

(* A client asks for some range, or none that is known, with or without    *)
(* `points`.                                                               *)
Asked == Ranges \cup {0}

Next ==
    \/ Collect
    \/ \E r \in Asked, p \in 0..(2 * MaxPoints) : Request(r, p)
    \/ Count \/ CountFails \/ Look \/ Chosen \/ Query \/ QueryFails \/ Answered

Spec == Init /\ [][Next]_vars
--------------------------------------------------------------------------------
(* Properties *)

(* "best bucket size", "ties naturally resolve to the smaller bucket"      *)
(* (pick_bucket): once the loop is over, no bucket the interval divides    *)
(* comes closer to the number of points, and none that is as close is      *)
(* finer.                                                                  *)
ChosenNearest ==
    pc \in {"query", "answered"} /\ bucket # 0 /\ Dividing(interval) # {} =>
       \E k \in Dividing(interval) :
          /\ bucket = Buckets[k]
          /\ \A j \in Dividing(interval) :
                Diff(k) <= Diff(j) /\ (j < k => Diff(k) < Diff(j))

(* The sizes pick_bucket has to choose from: those the interval divides,   *)
(* or, when it divides none, the interval itself.                          *)
Sizes ==
    IF Dividing(interval) = {} THEN {interval}
    ELSE {Buckets[k] : k \in Dividing(interval)}

(* "best bucket size": the size chosen makes at most twice the points of   *)
(* the range that were asked for, or else as few as any it could choose.   *)
(* A finer one is never taken where a coarser would have kept to that.     *)
TwiceOrFewest ==
    pc \in {"query", "answered"} /\ bucket # 0 =>
       \/ range \div bucket <= 2 * points
       \/ \A size \in Sizes : range \div bucket <= range \div size

(* So an answer has at most twice the points asked for, or as few as any   *)
(* size to choose from makes of the range; with one point each for the     *)
(* buckets cut at its two ends, and one for each row stored since they     *)
(* were counted.  An interval that divides no bucket is the only size it   *)
(* has: there the bound is that of a range full of rows.                   *)
AnswerBounded ==
    pc = "answered" =>
       \/ Cardinality(answer) <= 2 * points + 2 + late
       \/ \A size \in Sizes : Cardinality(answer) <= range \div size + 2

(* "a range within the ladder yields at most the `points` cap" (ADR-0005): *)
(* of a range that the coarsest bucket would bring under the cap, the      *)
(* answer has no more points than the cap, the two ends and the rows just  *)
(* stored aside.  The code does not keep to it: the nearest bucket may be  *)
(* the finer, an interval that divides no bucket is its own, and a raw     *)
(* answer may be of rows stored at a former interval.                      *)
CapKept ==
    pc = "answered" /\ range \div Buckets[NumBuckets] <= MaxPoints
       => Cardinality(answer) <= MaxPoints + 2 + late
================================================================================
