---------------------------- MODULE RangeQueryProofs ---------------------------
(***************************************************************************)
(* The loop of pick_bucket finds the nearest bucket, and the nearest one   *)
(* makes at most twice the points asked for, or as few as any: for every   *)
(* ladder in ascending order, every interval and every range.  So is the   *)
(* answer bounded: rows that are far enough apart share no quotient of a   *)
(* bucket's size, and a range reaches into few of those.                   *)
(***************************************************************************)
EXTENDS RangeQuery, FiniteSetTheorems, TLAPS

USE RangeAssumption

(* What the handler knows while it looks for a bucket. *)
Scope ==
    /\ interval \in Intervals
    /\ range \in Ranges
    /\ points \in Nat \ {0}
    /\ i \in 1..(NumBuckets + 1)
    /\ best \in 0..NumBuckets
    /\ best_diff \in Nat

(* Of the buckets below n, k is the nearest and the finest of those. *)
Nearest(k, n) ==
    /\ k \in Dividing(interval)
    /\ k < n
    /\ \A j \in Dividing(interval) : j < n =>
          Diff(k) <= Diff(j) /\ (j < k => Diff(k) < Diff(j))

(* The loop invariant: `best` is the nearest of the buckets looked at. *)
LoopInv ==
    pc = "pick" =>
       IF best = 0 THEN \A j \in Dividing(interval) : j >= i
       ELSE Nearest(best, i) /\ best_diff = Diff(best)

(* And once the loop is over, of them all. *)
ChosenInv ==
    pc \in {"query", "answered"} /\ bucket # 0 =>
       \/ Dividing(interval) = {} /\ bucket = interval
       \/ \E k \in Dividing(interval) :
             bucket = Buckets[k] /\ Nearest(k, NumBuckets + 1)

Inv == Scope /\ LoopInv /\ ChosenInv

(* The quotient of natural numbers is one. *)
LEMMA DivNat == \A a \in Nat, b \in Nat \ {0} : a \div b \in Nat
  BY Z3

(* Yield and Diff are natural numbers. *)
LEMMA DiffNat ==
    ASSUME Scope, NEW k \in 1..NumBuckets
    PROVE  Yield(k) \in Nat /\ Diff(k) \in Nat
<1>1. range \in Nat /\ Buckets[k] \in Nat \ {0}
  BY DEF Scope
<1>2. Yield(k) \in Nat
  BY <1>1, DivNat DEF Yield
<1>. QED
  BY <1>2 DEF Diff, Scope

(* Init establishes Inv and every step keeps it. *)
LEMMA InitInv == Init => Inv
  BY DEF Init, Inv, Scope, LoopInv, ChosenInv

(* A turn of the loop, in terms of what it leaves in `best`. *)
LEMMA LookKeeps == Inv /\ Look => Inv'
<1>. SUFFICES ASSUME Inv, Look PROVE Inv'
  OBVIOUS
<1>1. /\ UNCHANGED <<interval, range, points, pc, bucket>> /\ i' = i + 1
      /\ pc = "pick" /\ i \in 1..NumBuckets
  BY DEF Look, table, Inv, Scope
<1>2. \A k : Diff(k)' = Diff(k)
  BY <1>1 DEF Diff, Yield
<1>3. Dividing(interval)' = Dividing(interval) /\ Dividing(interval) \subseteq 1..NumBuckets
  BY <1>1 DEF Dividing
<1>4. Scope /\ Diff(i) \in Nat
  BY <1>1, DiffNat DEF Inv
<1>5. Scope'
  BY <1>1, <1>4 DEF Scope, Look
<1>6. ChosenInv'
  BY <1>1 DEF ChosenInv
<1>7. CASE i \in Dividing(interval) /\ Better(i)
  <2>1. best' = i /\ best_diff' = Diff(i)
    BY <1>7 DEF Look
  <2>2. \A j \in Dividing(interval) : j < i => Diff(i) < Diff(j)
    <3>. SUFFICES ASSUME NEW j \in Dividing(interval), j < i
                  PROVE  Diff(i) < Diff(j)
      OBVIOUS
    <3>1. best # 0
      BY <1>1, <1>3, <1>4 DEF Inv, LoopInv, Scope
    <3>2. Diff(i) < best_diff
      BY <1>7, <3>1 DEF Better
    <3>3. best_diff <= Diff(j)
      BY <1>1, <3>1 DEF Inv, LoopInv, Nearest
    <3>4. Diff(j) \in Nat /\ best_diff \in Nat
      BY <1>3, <1>4, DiffNat DEF Scope
    <3>. QED
      BY <1>4, <3>2, <3>3, <3>4
  <2>3. \A j \in Dividing(interval) : j < i + 1 =>
           Diff(i) <= Diff(j) /\ (j < i => Diff(i) < Diff(j))
    <3>. SUFFICES ASSUME NEW j \in Dividing(interval), j < i + 1
                  PROVE  Diff(i) <= Diff(j) /\ (j < i => Diff(i) < Diff(j))
      OBVIOUS
    <3>1. j \in 1..NumBuckets /\ Diff(j) \in Nat
      BY <1>3, <1>4, DiffNat
    <3>2. CASE j = i
      BY <1>1, <1>4, <3>2
    <3>3. CASE j < i
      BY <1>4, <2>2, <3>1, <3>3
    <3>. QED
      BY <1>1, <3>1, <3>2, <3>3
  <2>4. Nearest(i, i + 1)
    BY <1>1, <1>7, <2>3 DEF Nearest
  <2>5. Nearest(best, i)'
    BY <1>1, <1>2, <1>3, <2>1, <2>4 DEF Nearest
  <2>6. best' # 0 /\ (best_diff = Diff(best))'
    BY <1>1, <1>2, <2>1
  <2>. QED
    BY <1>5, <1>6, <2>5, <2>6 DEF Inv, LoopInv
<1>8. CASE ~(i \in Dividing(interval) /\ Better(i))
  <2>1. best' = best /\ best_diff' = best_diff
    BY <1>8 DEF Look
  <2>2. CASE best = 0
    <3>1. i \notin Dividing(interval)
      BY <1>8, <2>2 DEF Better
    <3>2. \A j \in Dividing(interval) : j >= i
      BY <1>1, <2>2 DEF Inv, LoopInv
    <3>3. \A j \in Dividing(interval) : j >= i + 1
      BY <1>1, <1>3, <3>1, <3>2
    <3>. QED
      BY <1>1, <1>3, <1>5, <1>6, <2>1, <2>2, <3>3 DEF Inv, LoopInv
  <2>3. CASE best # 0
    <3>1. Nearest(best, i) /\ best_diff = Diff(best)
      BY <1>1, <2>3 DEF Inv, LoopInv
    <3>2. i \in Dividing(interval) => Diff(best) <= Diff(i)
      BY <1>4, <1>8, <2>3, <3>1 DEF Better, Scope
    <3>3. best < i /\ best \in 1..NumBuckets
      BY <1>3, <3>1 DEF Nearest
    <3>4. \A j \in Dividing(interval) : j < i + 1 =>
             Diff(best) <= Diff(j) /\ (j < best => Diff(best) < Diff(j))
      BY SMTT(30), <1>1, <1>3, <3>1, <3>2, <3>3 DEF Nearest
    <3>5. Nearest(best, i + 1)
      BY <1>1, <3>1, <3>3, <3>4 DEF Nearest
    <3>6. Nearest(best, i)'
      BY <1>1, <1>2, <1>3, <2>1, <3>5 DEF Nearest
    <3>. QED
      BY <1>1, <1>2, <1>5, <1>6, <2>1, <2>3, <3>1, <3>6 DEF Inv, LoopInv
  <2>. QED
    BY <2>2, <2>3
<1>. QED
  BY <1>7, <1>8

(* The loop has run out. *)
LEMMA ChosenKeeps == Inv /\ Chosen => Inv'
<1>. SUFFICES ASSUME Inv, Chosen PROVE Inv'
  OBVIOUS
<1>1. /\ UNCHANGED <<interval, range, points, i, best, best_diff>>
      /\ pc = "pick" /\ pc' = "query" /\ i = NumBuckets + 1
  BY DEF Chosen, table, pick, Inv, Scope
<1>2. \A k : Diff(k)' = Diff(k)
  BY <1>1 DEF Diff, Yield
<1>3. Dividing(interval)' = Dividing(interval) /\ Dividing(interval) \subseteq 1..NumBuckets
  BY <1>1 DEF Dividing
<1>4. Scope'
  BY <1>1 DEF Inv, Scope
<1>5. CASE best = 0
  <2>1. Dividing(interval) = {}
    BY <1>1, <1>3, <1>5 DEF Inv, LoopInv
  <2>2. bucket' = interval
    BY <1>5 DEF Chosen
  <2>. QED
    BY <1>1, <1>3, <1>4, <2>1, <2>2 DEF Inv, LoopInv, ChosenInv
<1>6. CASE best # 0
  <2>1. Nearest(best, NumBuckets + 1)
    BY <1>1, <1>6 DEF Inv, LoopInv
  <2>2. bucket' = Buckets[best]
    BY <1>6 DEF Chosen, Inv, Scope
  <2>3. ChosenInv'
    BY <1>1, <1>2, <1>3, <2>1, <2>2 DEF ChosenInv, Nearest
  <2>. QED
    BY <1>1, <1>4, <2>3 DEF Inv, LoopInv
<1>. QED
  BY <1>5, <1>6

(* The steps that choose no bucket. *)
LEMMA OthersKeep == Inv /\ [Next]_vars /\ ~Look /\ ~Chosen => Inv'
<1>. SUFFICES ASSUME Inv, [Next]_vars, ~Look, ~Chosen PROVE Inv'
  OBVIOUS
<1>1. ASSUME UNCHANGED <<interval, range, points, i, best, best_diff, bucket>>,
             pc' # "pick" \/ pc' = pc,
             pc' \in {"query", "answered"} => pc \in {"query", "answered"}
      PROVE  Inv'
  <2>1. \A k : Diff(k)' = Diff(k)
    BY <1>1 DEF Diff, Yield
  <2>2. Dividing(interval)' = Dividing(interval)
    BY <1>1 DEF Dividing
  <2>3. \A k, n : Nearest(k, n)' = Nearest(k, n)
    BY <2>1, <2>2 DEF Nearest
  <2>4. LoopInv'
    BY <1>1, <2>1, <2>2, <2>3 DEF Inv, LoopInv
  <2>5. ChosenInv'
    BY <1>1, <2>1, <2>2, <2>3 DEF Inv, ChosenInv
  <2>6. Scope'
    BY <1>1 DEF Inv, Scope
  <2>. QED
    BY <2>4, <2>5, <2>6 DEF Inv
<1>2. CASE Collect
  BY <1>1, <1>2 DEF Collect, pick
<1>3. ASSUME NEW r \in Asked, NEW p \in 0..(2 * MaxPoints), Request(r, p)
      PROVE  Inv'
  <2>1. range' \in Ranges /\ points' \in Nat \ {0}
    BY <1>3 DEF Request, Points
  <2>. QED
    BY <1>3, <2>1 DEF Request, table, pick, Inv, Scope, LoopInv, ChosenInv
<1>4. ASSUME NEW raw, Start_pick(raw) PROVE Inv'
  <2>1. Scope'
    BY <1>4 DEF Start_pick, table, Inv, Scope
  <2>2. \A j \in Dividing(interval)' : j >= 1
    BY DEF Dividing
  <2>. QED
    BY <1>4, <2>1, <2>2 DEF Start_pick, Inv, LoopInv, ChosenInv
<1>5. CASE Count
  BY <1>4, <1>5 DEF Count
<1>6. CASE CountFails
  BY <1>4, <1>6 DEF CountFails
<1>7. CASE Query
  BY <1>1, <1>7 DEF Query, table, pick
<1>8. CASE QueryFails
  BY <1>1, <1>8 DEF QueryFails, table, pick
<1>9. CASE Answered
  BY <1>1, <1>9 DEF Answered, table, pick
<1>10. CASE UNCHANGED vars
  BY <1>1, <1>10 DEF vars
<1>. QED
  BY <1>2, <1>3, <1>5, <1>6, <1>7, <1>8, <1>9, <1>10 DEF Next

LEMMA StepInv == Inv /\ [Next]_vars => Inv'
  BY LookKeeps, ChosenKeeps, OthersKeep

(* The invariant of the handler: what it knows while it looks for a bucket *)
(* holds at every step of handler_metrics.                                 *)
THEOREM InvHolds == Spec => []Inv
  BY InitInv, StepInv, PTL DEF Spec

(* pick_bucket's bucket is the nearest, and the finest of the nearest, on  *)
(* every ladder.                                                           *)
THEOREM NearestChosen == Spec => []ChosenNearest
<1>1. Inv => ChosenNearest
  BY DEF Inv, ChosenInv, ChosenNearest, Nearest, Dividing
<1>. QED
  BY InvHolds, <1>1, PTL

(* Of the sizes to choose from the nearest is chosen: one of them that     *)
(* makes more than twice the points makes no more than any of the others.  *)
LEMMA BucketBound ==
    ASSUME Inv, pc \in {"query", "answered"}, bucket # 0
    PROVE  /\ bucket \in Nat \ {0}
           /\ \/ range \div bucket <= 2 * points
              \/ \A size \in Sizes : range \div bucket <= range \div size
<1>1. CASE Dividing(interval) = {} /\ bucket = interval
  <2>1. interval \in Nat \ {0} /\ range \in Nat
    BY DEF Inv, Scope
  <2>2. range \div interval \in Nat
    BY <2>1, DivNat
  <2>. QED
    BY <1>1, <2>1, <2>2 DEF Sizes
<1>2. ASSUME NEW k \in Dividing(interval), bucket = Buckets[k], Nearest(k, NumBuckets + 1)
      PROVE  /\ bucket \in Nat \ {0}
             /\ \/ Yield(k) <= 2 * points
                \/ \A j \in Dividing(interval) : Yield(k) <= Yield(j)
  <2>1. k \in 1..NumBuckets
    BY DEF Dividing
  <2>2. ASSUME NEW j \in Dividing(interval), ~(Yield(k) <= 2 * points)
        PROVE  Yield(k) <= Yield(j)
    <3>1. j \in 1..NumBuckets
      BY DEF Dividing
    <3>2. Diff(k) <= Diff(j)
      BY <1>2, <3>1 DEF Nearest
    <3>3. Yield(k) \in Nat /\ Yield(j) \in Nat /\ points \in Nat
      BY <2>1, <3>1, DiffNat DEF Inv, Scope
    <3>. QED
      BY <2>2, <3>2, <3>3 DEF Diff
  <2>. QED
    BY <1>2, <2>1, <2>2
<1>. QED
  BY <1>1, <1>2 DEF Inv, ChosenInv, Yield, Sizes

(* The bucket chosen makes at most twice the points asked for of the       *)
(* range, or as few as any size there is to choose from, on every ladder   *)
(* and at every interval.                                                  *)
THEOREM TwiceAtMost == Spec => []TwiceOrFewest
<1>1. Inv => TwiceOrFewest
  BY BucketBound DEF TwiceOrFewest
<1>. QED
  BY InvHolds, <1>1, PTL
--------------------------------------------------------------------------------
(* Quotients: a bucket is the quotient of a timestamp by its size.          *)
LEMMA Times ==
    ASSUME NEW m \in Int, NEW n \in Int, NEW b \in Nat \ {0}, m * b < n * b
    PROVE  m + 1 <= n
  OBVIOUS

LEMMA Quotient ==
    ASSUME NEW a \in Nat, NEW b \in Nat \ {0}
    PROVE  a \div b \in Nat /\ (a \div b) * b <= a /\ a < (a \div b) * b + b
  BY Z3

LEMMA QuotientIs ==
    ASSUME NEW a \in Nat, NEW b \in Nat \ {0}, NEW n \in Nat,
           n * b <= a, a < n * b + b
    PROVE  a \div b = n
<1> DEFINE q == a \div b
<1>1. q \in Nat /\ q * b <= a /\ a < q * b + b
  BY Quotient
<1> HIDE DEF q
<1>2. q * b + b = (q + 1) * b /\ n * b + b = (n + 1) * b
  BY <1>1
<1>3. q * b < (n + 1) * b /\ n * b < (q + 1) * b
  BY <1>1, <1>2
<1>4. q + 1 <= n + 1 /\ n + 1 <= q + 1
  BY <1>1, <1>3, Times
<1>5. q = n
  BY <1>1, <1>4
<1>. QED
  BY <1>5 DEF q

LEMMA QuotientGrows ==
    ASSUME NEW a \in Nat, NEW c \in Nat, NEW b \in Nat \ {0}
    PROVE  /\ a <= c => a \div b <= c \div b
           /\ a + b <= c => a \div b < c \div b
<1> DEFINE p == a \div b
           q == c \div b
<1>1. p \in Nat /\ p * b <= a /\ a < p * b + b /\ q \in Nat /\ q * b <= c /\ c < q * b + b
  BY Quotient
<1> HIDE DEF p, q
<1>2. q * b + b = (q + 1) * b /\ p * b + b = (p + 1) * b
  BY <1>1
<1>3. ASSUME a <= c PROVE p <= q
  <2>1. p * b < (q + 1) * b
    BY <1>1, <1>2, <1>3
  <2>. QED
    BY <1>1, <2>1, Times
<1>4. ASSUME a + b <= c PROVE p < q
  <2>1. (p + 1) * b < (q + 1) * b
    BY <1>1, <1>2, <1>4
  <2>. QED
    BY <1>1, <2>1, Times
<1>. QED
  BY <1>3, <1>4 DEF p, q

(* A range of r seconds reaches into at most r \div b + 2 buckets.         *)
LEMMA QuotientSpan ==
    ASSUME NEW lo \in Nat, NEW hi \in Nat, NEW r \in Nat, NEW b \in Nat \ {0},
           hi <= lo + r
    PROVE  hi \div b <= lo \div b + r \div b + 1
<1> DEFINE l == lo \div b
           h == hi \div b
           q == r \div b
<1>1. /\ l \in Nat /\ lo < l * b + b
      /\ h \in Nat /\ h * b <= hi
      /\ q \in Nat /\ r < q * b + b
  BY Quotient
<1> HIDE DEF l, h, q
<1>2. (l + q + 2) * b = (l * b + b) + (q * b + b)
  BY <1>1
<1>3. h * b < (l + q + 2) * b
  BY <1>1, <1>2
<1>4. h + 1 <= l + q + 2
  BY <1>1, <1>3, Times
<1>5. h <= l + q + 1
  BY <1>1, <1>4
<1>. QED
  BY <1>5 DEF l, h, q

LEMMA IntervalSize ==
    ASSUME NEW a \in Nat, NEW c \in Nat
    PROVE  /\ IsFiniteSet(a..c) /\ Cardinality(a..c) \in Nat
           /\ \A n \in Nat : c <= a + n => Cardinality(a..c) <= n + 1
<1>1. IsFiniteSet(a..c) /\ Cardinality(a..c) = IF a > c THEN 0 ELSE c - a + 1
  BY ONLY a \in Int, c \in Int, FS_Interval
<1>. QED
  BY <1>1

(* So a set of which no two elements share a bucket, and every element is  *)
(* in a bucket of that range, has no more elements than that.              *)
LEMMA OneEach ==
    ASSUME NEW lo \in Nat, NEW hi \in Nat, NEW r \in Nat, NEW b \in Nat \ {0},
           hi <= lo + r, NEW S,
           \A x \in S : x \div b \in (lo \div b)..(hi \div b),
           \A x, y \in S : x \div b = y \div b => x = y
    PROVE  Cardinality(S) \in Nat /\ Cardinality(S) <= r \div b + 2
<1> DEFINE Q(t) == t \div b
           f == [t \in S |-> Q(t)]
           T == Q(lo)..Q(hi)
<1>1. Q(lo) \in Nat /\ Q(hi) \in Nat /\ Q(r) \in Nat /\ Q(hi) <= Q(lo) + Q(r) + 1
  BY Quotient, QuotientSpan
<1>2. \A x \in S : Q(x) \in T
  OBVIOUS
<1>3. \A x, y \in S : Q(x) = Q(y) => x = y
  OBVIOUS
<1> HIDE DEF Q
<1>4. f \in Injection(S, T)
  BY <1>2, <1>3 DEF Injection, IsInjective
<1>5. Q(r) + 1 \in Nat /\ Q(hi) <= Q(lo) + (Q(r) + 1)
  BY <1>1
<1>6. /\ IsFiniteSet(T) /\ Cardinality(T) \in Nat
      /\ Cardinality(T) <= (Q(r) + 1) + 1
  BY <1>1, <1>5, IntervalSize
<1> HIDE DEF f, T
<1>7. IsFiniteSet(S) /\ Cardinality(S) <= Cardinality(T)
  BY <1>4, <1>6, FS_Injection
<1>8. Cardinality(S) \in Nat /\ Cardinality(S) <= Q(r) + 2
  BY <1>1, <1>6, <1>7, FS_CardinalityType
<1>. QED
  BY <1>8 DEF Q
--------------------------------------------------------------------------------
(* The interval was never raised to twice what it was, or more: of a table *)
(* filled at a finer one, pick_bucket's `ideal <= interval` answers more   *)
(* rows than were asked for.                                               *)
NeverDoubled == \A old \in OldIntervals, new \in Intervals : new < 2 * old

(* No two rows are closer than d. *)
Apart(S, d) == \A t, u \in S : t < u => t + d <= u

(* The table: no row is of the future, and none closer to another than     *)
(* half the interval.                                                      *)
TableInv ==
    /\ now \in Nat
    /\ late \in Nat
    /\ rows \subseteq 0..now
    /\ \E d \in Nat \ {0} : d <= interval /\ interval < 2 * d /\ Apart(rows, d)

(* Rows are read as they are only when there were few of them, or when the *)
(* interval is coarse enough.                                              *)
RawInv ==
    pc = "query" /\ bucket = 0 =>
       Cardinality(InRange) <= points + late \/ CoarseEnough

(* And the points answered are finite in number, and bounded.              *)
AnswerInv ==
    pc = "answered" =>
       /\ Cardinality(answer) \in Nat
       /\ \/ Cardinality(answer) <= 2 * points + 2 + late
          \/ \A size \in Sizes : Cardinality(answer) <= range \div size + 2

SizeInv == Inv /\ TableInv /\ RawInv /\ AnswerInv

(* A table filled at one interval has its rows that far apart. *)
LEMMA HistoryApart ==
    ASSUME NEW s \in Nat \ {0}
    PROVE  Apart(History(s), s)
<1>. SUFFICES ASSUME NEW t \in History(s), NEW u \in History(s), t < u
              PROVE  t + s <= u
  BY DEF Apart
<1>1. t \in Nat /\ u \in Nat /\ t % s = 0 /\ u % s = 0
  BY DEF History
<1>2. PICK m \in Int, n \in Int : t = m * s /\ u = n * s
  <2>1. t = (t \div s) * s /\ t \div s \in Int
    BY ONLY <1>1, s \in Nat \ {0}, Z3
  <2>2. u = (u \div s) * s /\ u \div s \in Int
    BY ONLY <1>1, s \in Nat \ {0}, Z3
  <2>. QED
    BY <2>1, <2>2
<1>3. m + 1 <= n
  BY <1>2, Times
<1>4. (m + 1) * s <= n * s
  BY ONLY <1>3, m \in Int, n \in Int, s \in Nat \ {0}
<1>. QED
  BY <1>2, <1>4

LEMMA InitSize == ASSUME NeverDoubled PROVE Init => SizeInv
<1>. SUFFICES ASSUME Init PROVE SizeInv
  OBVIOUS
<1>1. interval \in Nat \ {0} /\ now \in Nat /\ late = 0 /\ now = Start
  BY DEF Init
<1>2. CASE rows = {}
  <2>1. interval < 2 * interval /\ Apart(rows, interval)
    BY <1>1, <1>2 DEF Apart
  <2>. QED
    BY <1>1, <1>2, <2>1, InitInv DEF SizeInv, TableInv, RawInv, AnswerInv, Init
<1>3. ASSUME NEW old \in OldIntervals \cup {interval}, rows = History(old)
      PROVE  SizeInv
  <2>1. old \in Nat \ {0} /\ interval < 2 * old
    BY <1>1 DEF Init, NeverDoubled
  <2>2. Apart(rows, old) /\ rows \subseteq 0..now
    BY <1>1, <1>3, <2>1, HistoryApart DEF History
  <2> DEFINE d == IF old <= interval THEN old ELSE interval
  <2>3. d \in Nat \ {0} /\ d <= interval /\ interval < 2 * d /\ d <= old
    BY <1>1, <2>1
  <2> HIDE DEF d
  <2>4. Apart(rows, d)
    BY <1>1, <2>1, <2>2, <2>3 DEF Apart
  <2>. QED
    BY <1>1, <2>2, <2>3, <2>4, InitInv DEF SizeInv, TableInv, RawInv, AnswerInv, Init
<1>. QED
  BY <1>2, <1>3 DEF Init

(* The rows in range lie within a range that does not start before 0.      *)
LEMMA InRangeBounds ==
    ASSUME SizeInv
    PROVE  \E lo \in Nat : now <= lo + range /\ InRange \subseteq lo..now
<1>1. now \in Nat /\ range \in Nat /\ rows \subseteq 0..now
  BY DEF SizeInv, TableInv, Inv, Scope
<1> DEFINE lo == IF range <= now THEN now - range ELSE 0
<1>2. lo \in Nat /\ now <= lo + range
  BY <1>1
<1>3. \A t \in InRange : t \in lo..now
  <2>. SUFFICES ASSUME NEW t \in InRange PROVE t \in lo..now
    OBVIOUS
  <2>1. t \in Nat /\ t <= now /\ t >= now - range
    BY <1>1 DEF InRange
  <2>. QED
    BY <1>1, <2>1
<1>. QED
  BY <1>2, <1>3

LEMMA InRangeFinite ==
    ASSUME SizeInv
    PROVE  IsFiniteSet(InRange) /\ Cardinality(InRange) \in Nat
<1>1. PICK lo \in Nat : InRange \in SUBSET (lo..now)
  BY InRangeBounds
<1>2. now \in Nat
  BY DEF SizeInv, TableInv
<1>3. IsFiniteSet(lo..now)
  BY <1>2, IntervalSize
<1>. QED
  BY <1>1, <1>3, FS_Subset, FS_CardinalityType

(* When the interval is coarse enough, the rows in range are not many.     *)
LEMMA CoarseIsFew ==
    ASSUME SizeInv, CoarseEnough
    PROVE  Cardinality(InRange) <= 2 * points + 2
<1>1. range \in Nat /\ points \in Nat \ {0} /\ interval \in Nat \ {0} /\ now \in Nat
  BY DEF SizeInv, TableInv, Inv, Scope
<1>2. PICK d \in Nat \ {0} : interval < 2 * d /\ Apart(rows, d)
  BY DEF SizeInv, TableInv
<1>3. PICK lo \in Nat : now <= lo + range /\ InRange \in SUBSET (lo..now)
  BY InRangeBounds
<1>4. \A t \in InRange : t \in Nat /\ lo <= t /\ t <= now
  BY <1>1, <1>3
<1>5. Cardinality(InRange) \in Nat /\ Cardinality(InRange) <= range \div d + 2
  <2>1. ASSUME NEW t \in InRange PROVE t \div d \in (lo \div d)..(now \div d)
    <3>1. /\ t \div d \in Nat /\ lo \div d \in Nat /\ now \div d \in Nat
          /\ lo \div d <= t \div d /\ t \div d <= now \div d
      BY <1>1, <1>4, Quotient, QuotientGrows
    <3>. QED
      BY <3>1
  <2>2. ASSUME NEW t \in InRange, NEW u \in InRange, t < u PROVE t \div d < u \div d
    <3>1. t + d <= u
      BY <1>2, <2>2 DEF InRange, Apart
    <3>. QED
      BY <1>4, <3>1, QuotientGrows
  <2>3. ASSUME NEW t \in InRange, NEW u \in InRange, t \div d = u \div d PROVE t = u
    <3>1. ~(t < u) /\ ~(u < t)
      BY <1>4, <2>2, <2>3, Quotient
    <3>. QED
      BY <1>4, <3>1
  <2>. QED
    BY <1>1, <1>3, <2>1, <2>3, OneEach
<1>6. range < (interval + 1) * points
  <2> DEFINE q == range \div points
  <2>1. q \in Nat /\ range < q * points + points /\ q <= interval
    BY <1>1, Quotient DEF CoarseEnough
  <2> HIDE DEF q
  <2>2. q * points <= interval * points
    BY ONLY <1>1, <2>1
  <2>. QED
    BY <1>1, <2>1, <2>2
<1>7. (interval + 1) * points <= (2 * points) * d
  <2>1. interval + 1 <= 2 * d
    BY <1>1, <1>2
  <2>2. (interval + 1) * points <= (2 * d) * points
    BY ONLY <1>1, <2>1, d \in Nat \ {0}
  <2>. QED
    BY <1>1, <2>2
<1>8. range \div d <= 2 * points
  <2> DEFINE q == range \div d
  <2>1. q \in Nat /\ q * d <= range
    BY <1>1, Quotient
  <2> HIDE DEF q
  <2>2. q * d < (2 * points) * d
    BY <1>1, <1>6, <1>7, <2>1
  <2>3. q + 1 <= 2 * points
    BY <1>1, <2>1, <2>2, Times
  <2>4. q <= 2 * points
    BY <1>1, <2>1, <2>3
  <2>. QED
    BY <2>4 DEF q
<1>9. range \div d \in Nat
  BY <1>1, Quotient
<1>. QED
  BY <1>1, <1>5, <1>8, <1>9

(* A bucket makes one point of its rows, so an answer has one for each     *)
(* bucket of the range.                                                    *)
LEMMA GroupedIsFew ==
    ASSUME SizeInv, NEW b \in Nat \ {0}
    PROVE  /\ Cardinality({(t \div b) * b : t \in InRange}) <= range \div b + 2
           /\ Cardinality({(t \div b) * b : t \in InRange}) \in Nat
<1> DEFINE S == {(t \div b) * b : t \in InRange}
<1>1. range \in Nat /\ now \in Nat
  BY DEF SizeInv, TableInv, Inv, Scope
<1>2. PICK lo \in Nat : now <= lo + range /\ InRange \subseteq lo..now
  BY InRangeBounds
<1>3. ASSUME NEW x \in S
      PROVE  /\ x \in Nat /\ x <= now
             /\ \E n \in Nat : x = n * b /\ x \div b = n /\ lo \div b <= n
  <2>1. PICK t \in InRange : x = (t \div b) * b
    OBVIOUS
  <2>2. t \in Nat /\ lo <= t /\ t <= now
    BY <1>1, <1>2
  <2> DEFINE n == t \div b
  <2>3. n \in Nat /\ n * b <= t /\ lo \div b <= n
    BY <2>2, Quotient, QuotientGrows
  <2>4. x = n * b
    BY <2>1
  <2> HIDE DEF n
  <2>5. n * b \in Nat /\ n * b < n * b + b /\ n * b <= n * b
    BY ONLY <2>3, b \in Nat \ {0}
  <2>6. x \in Nat /\ x \div b = n
    BY <2>3, <2>4, <2>5, QuotientIs
  <2>. QED
    BY <1>1, <2>2, <2>3, <2>4, <2>6
<1> HIDE DEF S
<1>4. ASSUME NEW x \in S PROVE x \div b \in (lo \div b)..(now \div b)
  <2>1. /\ x \div b \in Nat /\ lo \div b \in Nat /\ now \div b \in Nat
        /\ lo \div b <= x \div b /\ x \div b <= now \div b
    BY <1>1, <1>3, Quotient, QuotientGrows
  <2>. QED
    BY <2>1
<1>5. ASSUME NEW x \in S, NEW y \in S, x \div b = y \div b PROVE x = y
  BY <1>3, <1>5
<1>6. Cardinality(S) \in Nat /\ Cardinality(S) <= range \div b + 2
  BY <1>1, <1>2, <1>4, <1>5, OneEach
<1>. QED
  BY <1>6 DEF S

(* What is read is bounded by what was asked for. *)
LEMMA QueryKeeps == SizeInv /\ Query => SizeInv'
<1>. SUFFICES ASSUME SizeInv, Query PROVE SizeInv'
  OBVIOUS
<1>1. /\ UNCHANGED <<interval, now, rows, range, points, bucket, late>>
      /\ pc = "query" /\ pc' = "answered" /\ Sizes' = Sizes
  BY DEF Query, table, Sizes, Dividing
<1>2. points \in Nat /\ late \in Nat
  BY DEF SizeInv, Inv, Scope, TableInv
<1>3. /\ Cardinality(answer') \in Nat
      /\ \/ Cardinality(answer') <= 2 * points + 2 + late
         \/ \A size \in Sizes : Cardinality(answer') <= range \div size + 2
  <2>1. CASE bucket = 0
    <3>1. answer' = InRange
      BY <2>1 DEF Query
    <3>2. CASE CoarseEnough
      <4>1. Cardinality(InRange) <= 2 * points + 2 /\ Cardinality(InRange) \in Nat
        BY <3>2, CoarseIsFew, InRangeFinite
      <4>. QED
        BY <1>2, <3>1, <4>1
    <3>3. CASE ~CoarseEnough
      <4>1. Cardinality(InRange) <= points + late
        BY <1>1, <2>1, <3>3 DEF SizeInv, RawInv
      <4>2. Cardinality(InRange) \in Nat
        BY InRangeFinite
      <4>. QED
        BY <1>2, <3>1, <4>1, <4>2
    <3>. QED
      BY <3>2, <3>3
  <2>2. CASE bucket # 0
    <3>1. /\ bucket \in Nat \ {0}
          /\ \/ range \div bucket <= 2 * points
             \/ \A size \in Sizes : range \div bucket <= range \div size
      BY <1>1, <2>2, BucketBound DEF SizeInv
    <3>2. range \div bucket \in Nat
      BY <3>1, Quotient DEF SizeInv, Inv, Scope
    <3>4. \A size \in Sizes : range \div size \in Nat
      BY Quotient DEF SizeInv, Inv, Scope, Sizes, Dividing
    <3>3. Cardinality(answer') <= range \div bucket + 2 /\ Cardinality(answer') \in Nat
      BY <2>2, <3>1, GroupedIsFew DEF Query
    <3>. QED
      BY <1>2, <3>1, <3>2, <3>3, <3>4
  <2>. QED
    BY <2>1, <2>2
<1>4. AnswerInv'
  BY <1>1, <1>3 DEF AnswerInv
<1>5. TableInv'
  BY <1>1 DEF SizeInv, TableInv, Apart
<1>6. Inv'
  BY <1>1, OthersKeep DEF SizeInv, Next, Look, Chosen
<1>. QED
  BY <1>1, <1>4, <1>5, <1>6 DEF SizeInv, RawInv

(* A cycle adds one row at most, an interval after every other, and the    *)
(* others only fall out of the range.                                      *)
LEMMA CollectKeeps == SizeInv /\ Collect => SizeInv'
<1>. SUFFICES ASSUME SizeInv, Collect PROVE SizeInv'
  OBVIOUS
<1>1. /\ UNCHANGED <<interval, pc, range, points, bucket, answer>>
      /\ now' = now + interval /\ Sizes' = Sizes
      /\ CoarseEnough' = CoarseEnough
  BY DEF Collect, Sizes, Dividing, CoarseEnough
<1>2. /\ now \in Nat /\ late \in Nat /\ interval \in Nat \ {0} /\ points \in Nat
      /\ range \in Nat /\ rows \subseteq 0..now
  BY DEF SizeInv, Inv, Scope, TableInv
<1>3. /\ rows' \subseteq rows \cup {now'} /\ late' \in {late, late + 1}
      /\ rows' = rows \/ late' = late + 1
  BY DEF Collect
<1>4. TableInv'
  <2>1. PICK d \in Nat \ {0} : d <= interval /\ interval < 2 * d /\ Apart(rows, d)
    BY DEF SizeInv, TableInv
  <2>2. ASSUME NEW t \in rows', NEW u \in rows', t < u PROVE t + d <= u
    <3>1. CASE t \in rows /\ u \in rows
      BY <2>1, <2>2, <3>1 DEF Apart
    <3>2. CASE u = now'
      <4>1. t \in Nat /\ t <= now
        BY <1>1, <1>2, <1>3, <2>2, <3>2
      <4>. QED
        BY <1>1, <1>2, <2>1, <3>2, <4>1
    <3>3. CASE t = now' /\ u \in rows
      BY <1>1, <1>2, <2>2, <3>3
    <3>. QED
      BY <1>3, <3>1, <3>2, <3>3
  <2>3. rows' \subseteq 0..now'
    BY <1>1, <1>2, <1>3
  <2>4. now' \in Nat /\ late' \in Nat
    BY <1>1, <1>2, <1>3
  <2>5. d <= interval' /\ interval' < 2 * d /\ Apart(rows', d)
    BY <1>1, <2>1, <2>2 DEF Apart
  <2>. QED
    BY <2>3, <2>4, <2>5 DEF TableInv
<1>5. Cardinality(InRange)' <= Cardinality(InRange) + (late' - late) /\ Cardinality(InRange) \in Nat
      /\ Cardinality(InRange)' \in Nat
  <2>1. IsFiniteSet(InRange) /\ Cardinality(InRange) \in Nat
    BY InRangeFinite
  <2>2. InRange' \subseteq InRange \cup {now'}
    <3>. SUFFICES ASSUME NEW t \in InRange', t # now' PROVE t \in InRange
      OBVIOUS
    <3>1. t \in rows /\ t >= now' - range
      BY <1>1, <1>3 DEF InRange
    <3>2. t \in Nat
      BY <1>2, <3>1
    <3>3. t >= now - range
      BY <1>1, <1>2, <3>1, <3>2
    <3>. QED
      BY <3>1, <3>3 DEF InRange
  <2>3. rows' = rows => InRange' \subseteq InRange
    <3>. SUFFICES ASSUME rows' = rows, NEW t \in InRange' PROVE t \in InRange
      OBVIOUS
    <3>1. t \in rows /\ t >= now' - range
      BY <1>1 DEF InRange
    <3>2. t \in Nat
      BY <1>2, <3>1
    <3>3. t >= now - range
      BY <1>1, <1>2, <3>1, <3>2
    <3>. QED
      BY <3>1, <3>3 DEF InRange
  <2>4. /\ IsFiniteSet(InRange \cup {now'})
        /\ Cardinality(InRange \cup {now'}) <= Cardinality(InRange) + 1
        /\ Cardinality(InRange \cup {now'}) \in Nat
    <3>1. /\ IsFiniteSet(InRange \cup {now'})
          /\ \/ Cardinality(InRange \cup {now'}) = Cardinality(InRange)
             \/ Cardinality(InRange \cup {now'}) = Cardinality(InRange) + 1
      BY <2>1, FS_AddElement
    <3>. QED
      BY <2>1, <3>1
  <2>5. IsFiniteSet(InRange') /\ Cardinality(InRange') <= Cardinality(InRange \cup {now'})
    BY <2>2, <2>4, FS_Subset
  <2>6. Cardinality(InRange') \in Nat
    BY <2>5, FS_CardinalityType
  <2>7. rows' = rows => Cardinality(InRange') <= Cardinality(InRange)
    BY <2>1, <2>3, FS_Subset
  <2>8. Cardinality(InRange') <= Cardinality(InRange) + (late' - late)
    <3>1. CASE late' = late + 1
      BY <1>2, <2>1, <2>4, <2>5, <2>6, <3>1
    <3>2. CASE late' = late
      BY <1>2, <1>3, <2>1, <2>6, <2>7, <3>2
    <3>. QED
      BY <1>3, <3>1, <3>2
  <2>. QED
    BY <2>1, <2>6, <2>8
<1>6. RawInv'
  <2>. SUFFICES ASSUME pc = "query", bucket = 0, ~CoarseEnough
                PROVE  Cardinality(InRange)' <= points + late'
    BY <1>1 DEF RawInv
  <2>1. Cardinality(InRange) <= points + late
    BY DEF SizeInv, RawInv
  <2>2. late' \in Nat
    BY <1>4 DEF TableInv
  <2>. QED
    BY <1>2, <1>5, <2>1, <2>2
<1>7. AnswerInv'
  <2>. SUFFICES ASSUME pc = "answered"
                PROVE  /\ Cardinality(answer) \in Nat
                       /\ \/ Cardinality(answer) <= 2 * points + 2 + late'
                          \/ \A size \in Sizes :
                                Cardinality(answer) <= range \div size + 2
    BY <1>1 DEF AnswerInv
  <2>1. /\ Cardinality(answer) \in Nat
        /\ \/ Cardinality(answer) <= 2 * points + 2 + late
           \/ \A size \in Sizes : Cardinality(answer) <= range \div size + 2
    BY DEF SizeInv, AnswerInv
  <2>. QED
    BY <1>2, <1>3, <2>1
<1>8. Inv'
  <2>1. UNCHANGED <<pc, i>>
    BY DEF Collect, pick
  <2>2. ~Look /\ ~Chosen
    BY <2>1 DEF Look, Chosen, SizeInv, Inv, Scope
  <2>. QED
    BY <2>2, OthersKeep DEF SizeInv, Next
<1>. QED
  BY <1>4, <1>6, <1>7, <1>8 DEF SizeInv

(* The steps that leave the table alone and read nothing of it. *)
LEMMA TableKept ==
    ASSUME SizeInv, [Next]_vars, UNCHANGED table, late' \in {0, late},
           pc' \notin {"query", "answered"} \/ UNCHANGED vars
    PROVE  SizeInv'
<1>1. Inv'
  BY StepInv DEF SizeInv
<1>2. TableInv'
  BY DEF SizeInv, TableInv, table, Apart
<1>3. RawInv' /\ AnswerInv'
  <2>1. CASE pc' \notin {"query", "answered"}
    BY <2>1 DEF RawInv, AnswerInv
  <2>2. CASE UNCHANGED vars
    <3>1. Sizes' = Sizes /\ InRange' = InRange /\ CoarseEnough' = CoarseEnough
      BY <2>2 DEF vars, Sizes, Dividing, InRange, CoarseEnough
    <3>. QED
      BY <2>2, <3>1 DEF vars, SizeInv, RawInv, AnswerInv
  <2>. QED
    BY <2>1, <2>2
<1>. QED
  BY <1>1, <1>2, <1>3 DEF SizeInv

(* Raw is answered of few rows or at a coarse interval. *)
LEMMA CountKeeps == SizeInv /\ (Count \/ CountFails) => SizeInv'
<1>. SUFFICES ASSUME SizeInv, NEW raw, Start_pick(raw),
                     raw = (FewRows \/ CoarseEnough) \/ raw = CoarseEnough,
                     Count \/ CountFails
              PROVE  SizeInv'
  BY DEF Count, CountFails
<1>1. /\ UNCHANGED <<interval, now, rows, range, points>> /\ late' = 0
      /\ pc' = IF raw THEN "query" ELSE "pick"
  BY DEF Start_pick, table
<1>2. InRange' = InRange /\ CoarseEnough' = CoarseEnough
  BY <1>1 DEF InRange, CoarseEnough
<1>3. RawInv'
  <2>. SUFFICES ASSUME raw, ~CoarseEnough PROVE Cardinality(InRange) <= points + 0
    BY <1>1, <1>2 DEF RawInv
  <2>1. Cardinality(InRange) <= points
    BY DEF FewRows
  <2>. QED
    BY <2>1 DEF SizeInv, Inv, Scope
<1>4. AnswerInv'
  BY <1>1 DEF AnswerInv
<1>5. TableInv'
  BY <1>1 DEF SizeInv, TableInv, Apart
<1>6. Inv'
  BY StepInv DEF SizeInv, Next
<1>. QED
  BY <1>3, <1>4, <1>5, <1>6 DEF SizeInv

(* A bucket is no raw answer. *)
LEMMA ChosenSized == SizeInv /\ Chosen => SizeInv'
<1>. SUFFICES ASSUME SizeInv, Chosen PROVE SizeInv'
  OBVIOUS
<1>1. /\ UNCHANGED <<interval, now, rows, late>> /\ pc' = "query"
      /\ bucket' = IF best > 0 THEN Buckets[best] ELSE interval
  BY DEF Chosen, table
<1>2. bucket' # 0
  <2>1. interval \in Nat \ {0} /\ best \in 0..NumBuckets
    BY DEF SizeInv, Inv, Scope
  <2>. QED
    BY <1>1, <2>1
<1>3. RawInv' /\ AnswerInv'
  BY <1>1, <1>2 DEF RawInv, AnswerInv
<1>4. TableInv'
  BY <1>1 DEF SizeInv, TableInv, Apart
<1>5. Inv'
  BY StepInv DEF SizeInv, Next
<1>. QED
  BY <1>3, <1>4, <1>5 DEF SizeInv

(* An answer to GET /api/metrics has at most twice the points asked for,   *)
(* or as few as any size to choose from makes of the range, one each for   *)
(* the two buckets cut at its ends, and one for every row stored since     *)
(* they were counted: on every ladder and at every interval, whatever was  *)
(* stored and whether or not the count failed, as long as the interval was *)
(* never raised to twice what it was.                                      *)
THEOREM AnswerAlwaysBounded ==
    ASSUME NeverDoubled
    PROVE  Spec => []AnswerBounded
<1>1. Init => SizeInv
  BY InitSize
<1>2. SizeInv /\ [Next]_vars => SizeInv'
  <2>. SUFFICES ASSUME SizeInv, [Next]_vars PROVE SizeInv'
    OBVIOUS
  <2>1. CASE Collect
    BY <2>1, CollectKeeps
  <2>2. ASSUME NEW r \in Asked, NEW p \in 0..(2 * MaxPoints), Request(r, p)
        PROVE  SizeInv'
    BY <2>2, TableKept DEF Request
  <2>3. CASE Count \/ CountFails
    BY <2>3, CountKeeps
  <2>4. CASE Look
    BY <2>4, TableKept DEF Look
  <2>5. CASE Chosen
    BY <2>5, ChosenSized
  <2>6. CASE Query
    BY <2>6, QueryKeeps
  <2>7. CASE QueryFails
    BY <2>7, TableKept DEF QueryFails
  <2>8. CASE Answered
    BY <2>8, TableKept DEF Answered
  <2>9. CASE UNCHANGED vars
    BY <2>9, TableKept DEF vars, table
  <2>. QED
    BY <2>1, <2>2, <2>3, <2>4, <2>5, <2>6, <2>7, <2>8, <2>9 DEF Next
<1>3. SizeInv => AnswerBounded
  BY DEF SizeInv, AnswerInv, AnswerBounded
<1>. QED
  BY <1>1, <1>2, <1>3, PTL DEF Spec
================================================================================
