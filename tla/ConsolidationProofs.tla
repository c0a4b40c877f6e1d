-------------------------- MODULE ConsolidationProofs --------------------------
(***************************************************************************)
(* What the metrics table keeps, for every ladder, every number of         *)
(* processes and every clock.  The argument is about one tier transition:  *)
(* between its INSERT and its DELETE the table the transaction sees counts *)
(* samples twice, but the rows the DELETE will spare already partition     *)
(* what was stored.                                                        *)
(*                                                                         *)
(* From it follow, for any clock, that a pass leaves nothing behind; and,  *)
(* for one that is not set back, that a bucket is merged once and only     *)
(* when it is closed, because the buckets of the ladder divide each other; *)
(* and that the table implements SampleStore.                              *)
(***************************************************************************)
EXTENDS Consolidation, TLAPS

(* A sample is in a table iff it is in one of its rows. *)
LEMMA InSamples ==
    ASSUME NEW T, NEW s
    PROVE  s \in Samples(T) <=> \E r \in T : s \in r.samples
  BY DEF Samples

LEMMA SamplesType ==
    ASSUME NEW T \in SUBSET Row
    PROVE  Samples(T) \in SUBSET Sample
  BY DEF Samples, Row

LEMMA BucketStartType ==
    ASSUME NEW ts \in Int, NEW bs \in Nat \ {0}
    PROVE  BucketStart(ts, bs) \in Int
  BY DEF BucketStart

LEMMA TierType ==
    ASSUME NEW i \in 1..NumTiers
    PROVE  /\ Tiers[i].bucket \in Nat \ {0}
           /\ Tiers[i].threshold \in Nat
  <1>1. Tiers[i] \in [bucket : Nat \ {0}, threshold : Nat]
    BY ConsolidationAssumption
  <1>2. QED  BY <1>1

LEMMA InsertedType ==
    ASSUME NEW T \in SUBSET Row, NEW i \in 1..NumTiers, NEW t \in Int
    PROVE  Inserted(T, i, t) \in SUBSET Row
  <1>1. SUFFICES ASSUME NEW r \in Aged(T, i, t)
                 PROVE  Merged(T, i, t, BucketStart(r.ts, Tiers[i].bucket)) \in Row
    BY DEF Inserted
  <1> DEFINE b == BucketStart(r.ts, Tiers[i].bucket)
             G == {q \in Aged(T, i, t) : BucketStart(q.ts, Tiers[i].bucket) = b}
  <1>2. r.ts \in Int
    BY DEF Aged, Row
  <1>3. b \in Int
    BY <1>2, TierType, BucketStartType
  <1>4. Samples(G) \in SUBSET Sample
    <2>1. G \in SUBSET Row  BY DEF Aged
    <2>2. QED  BY <2>1, SamplesType
  <1> HIDE DEF b, G
  <1>5. [ts |-> b, bucket |-> Tiers[i].bucket, kind |-> "merged", samples |-> Samples(G)] \in Row
    BY <1>3, <1>4, TierType DEF Row
  <1>6. QED  BY <1>5 DEF Merged, b, G
--------------------------------------------------------------------------------
(* The variables stay in their ranges under every step. *)
THEOREM TypeCorrect == Spec => []TypeOK
  <1>1. Init => TypeOK
    <2> SUFFICES ASSUME Init PROVE TypeOK  OBVIOUS
    <2>1. rows \in SUBSET Row
      BY ConsolidationAssumption DEF Init, RawRow, Row, Sample, NullBucket
    <2>2. stored \in SUBSET Sample
      BY <2>1, SamplesType DEF Init
    <2>3. NumTiers \in Nat
      BY ConsolidationAssumption
    <2>4. now \in Nat /\ at \in [Writers -> Nat] /\ pc \in [Writers -> Steps]
      BY ConsolidationAssumption DEF Init, Steps
    <2>5. /\ lock \in Writers \cup {NoWriter} /\ work \in SUBSET Row
          /\ tier \in 1..(NumTiers + 1) /\ verb \in {"insert", "delete"}
          /\ count \in Nat /\ pruned \in SUBSET Sample
      BY <2>3 DEF Init
    <2>6. QED
      BY <2>1, <2>2, <2>4, <2>5 DEF TypeOK
  <1>2. TypeOK /\ [Next]_vars => TypeOK'
    <2> SUFFICES ASSUME TypeOK, [Next]_vars PROVE TypeOK'  OBVIOUS
    <2> USE DEF TypeOK
    <2>0. NumTiers \in Nat
      BY ConsolidationAssumption
    <2>1. CASE Tick
      BY <2>1 DEF Tick, tx
    <2>2. CASE StepBack
      BY <2>2, ConsolidationAssumption DEF StepBack, tx
    <2>3. ASSUME NEW w \in Writers, InsertClock(w) PROVE TypeOK'
      BY <2>3 DEF InsertClock, Goto, tx, Steps
    <2>4. ASSUME NEW w \in Writers, Insert(w) PROVE TypeOK'
      <3>1. PICK i \in Intervals :
              /\ rows' = rows \cup {RawRow([n |-> count + 1, at |-> at[w]], i)}
              /\ stored' = stored \cup {[n |-> count + 1, at |-> at[w]]}
        BY <2>4 DEF Insert
      <3>2. [n |-> count + 1, at |-> at[w]] \in Sample
        BY DEF Sample
      <3>3. rows' \in SUBSET Row /\ stored' \in SUBSET Sample
        BY <3>1, <3>2, ConsolidationAssumption DEF RawRow, Row, Sample
      <3>4. QED
        BY <2>4, <3>3 DEF Insert, Goto, tx, Steps
    <2>5. ASSUME NEW w \in Writers, InsertFail(w) PROVE TypeOK'
      BY <2>5 DEF InsertFail, Goto, tx, Steps
    <2>6. ASSUME NEW w \in Writers, ConsolidateClock(w) PROVE TypeOK'
      BY <2>6 DEF ConsolidateClock, Goto, tx, Steps
    <2>7. ASSUME NEW w \in Writers, Begin(w) PROVE TypeOK'
      BY <2>7, <2>0 DEF Begin, Goto, Steps
    <2>8. ASSUME NEW w \in Writers, BeginFail(w) PROVE TypeOK'
      BY <2>8 DEF BeginFail, Goto, tx, Steps
    <2>9. ASSUME NEW w \in Writers, TierInsert(w) PROVE TypeOK'
      <3>1. tier \in 1..NumTiers /\ at[w] \in Int
        BY <2>9, <2>0 DEF TierInsert
      <3>2. work' \in SUBSET Row
        BY <2>9, <3>1, InsertedType DEF TierInsert
      <3>3. QED
        BY <2>9, <3>2 DEF TierInsert
    <2>10. ASSUME NEW w \in Writers, TierDelete(w) PROVE TypeOK'
      BY <2>10, <2>0 DEF TierDelete
    <2>11. ASSUME NEW w \in Writers, Commit(w) PROVE TypeOK'
      BY <2>11, <2>0 DEF Commit, EndTx, Goto, Steps
    <2>12. ASSUME NEW w \in Writers, Rollback(w) PROVE TypeOK'
      BY <2>12, <2>0 DEF Rollback, EndTx, Goto, Steps
    <2>13. ASSUME NEW w \in Writers, PruneClock(w) PROVE TypeOK'
      BY <2>13 DEF PruneClock, Goto, tx, Steps
    <2>14. ASSUME NEW w \in Writers, Prune(w) PROVE TypeOK'
      <3>1. Samples(Expired(w)) \in SUBSET Sample
        BY SamplesType DEF Expired
      <3>2. QED
        BY <2>14, <3>1 DEF Prune, Goto, tx, Steps
    <2>15. ASSUME NEW w \in Writers, PruneFail(w) PROVE TypeOK'
      BY <2>15 DEF PruneFail, Goto, tx, Steps
    <2>16. ASSUME NEW w \in Writers, Crash(w) PROVE TypeOK'
      BY <2>16, <2>0 DEF Crash, EndTx, tx, Steps
    <2>17. CASE UNCHANGED vars
      BY <2>17 DEF vars
    <2>18. QED
      BY <2>1, <2>2, <2>3, <2>4, <2>5, <2>6, <2>7, <2>8, <2>9, <2>10, <2>11,
         <2>12, <2>13, <2>14, <2>15, <2>16, <2>17 DEF Next, Cycle
  <1>3. QED
    BY <1>1, <1>2, PTL DEF Spec
--------------------------------------------------------------------------------
(* The rows the current tier's DELETE will spare. *)
Spared == work \ Aged(work, tier, at[lock])

(* While a transaction is open the committed table does not change, and    *)
(* the rows the transaction will keep are a partition of its samples.      *)
TxInv == lock # NoWriter =>
    /\ pc[lock] = "tx"
    /\ verb = "insert" => Disjoint(work) /\ Samples(work) = Samples(rows)
    /\ verb = "delete" => /\ tier <= NumTiers
                          /\ Disjoint(Spared)
                          /\ Samples(Spared) = Samples(rows)

(* Every sample is numbered when it is stored. *)
Numbered == \A s \in stored : s.n <= count

Inv ==
    /\ NoSampleLost
    /\ NoDoubleCount
    /\ Samples(rows) \cap pruned = {}
    /\ Numbered
    /\ TxInv

LEMMA InDisjoint ==
    ASSUME NEW T
    PROVE  Disjoint(T) <=> \A r, q \in T : \A s : s \in r.samples /\ s \in q.samples => r = q
  BY DEF Disjoint

(* The rows an INSERT adds carry the tier's own size, so its DELETE spares *)
(* them; the rest of what it spares is what did not qualify.               *)
LEMMA SparedByDelete ==
    ASSUME NEW T, NEW i \in 1..NumTiers, NEW t \in Int
    PROVE  (T \cup Inserted(T, i, t)) \ Aged(T \cup Inserted(T, i, t), i, t)
             = (T \ Aged(T, i, t)) \cup Inserted(T, i, t)
  <1>1. ASSUME NEW q \in Inserted(T, i, t)
        PROVE  ~Qualifies(q, i, t)
    <2>0. PICK b : q = Merged(T, i, t, b)
      BY DEF Inserted
    <2>1. q.bucket = Tiers[i].bucket
      BY <2>0 DEF Merged
    <2>2. QED
      BY <2>1, TierType DEF Qualifies
  <1>2. QED
    BY <1>1 DEF Aged

LEMMA InInserted ==
    ASSUME NEW T, NEW i, NEW t, NEW q
    PROVE  q \in Inserted(T, i, t) <=>
             \E r \in Aged(T, i, t) :
                q = Merged(T, i, t, BucketStart(r.ts, Tiers[i].bucket))
  BY DEF Inserted

LEMMA InMerged ==
    ASSUME NEW T, NEW i, NEW t, NEW b, NEW s
    PROVE  s \in Merged(T, i, t, b).samples <=>
             \E r \in Aged(T, i, t) :
                BucketStart(r.ts, Tiers[i].bucket) = b /\ s \in r.samples
  BY InSamples DEF Merged

(* One tier's INSERT and DELETE, taken together, keep the partition. *)
LEMMA TierKeepsSamples ==
    ASSUME NEW T, NEW i \in 1..NumTiers, NEW t \in Int
    PROVE  Samples((T \ Aged(T, i, t)) \cup Inserted(T, i, t)) = Samples(T)
  <1> DEFINE K == (T \ Aged(T, i, t)) \cup Inserted(T, i, t)
             B(r) == BucketStart(r.ts, Tiers[i].bucket)
  <1>1. ASSUME NEW s \in Samples(T) PROVE s \in Samples(K)
    <2>1. PICK r \in T : s \in r.samples
      BY InSamples
    <2>2. CASE r \in Aged(T, i, t)
      <3>1. s \in Merged(T, i, t, B(r)).samples
        BY <2>1, <2>2, InMerged
      <3>2. Merged(T, i, t, B(r)) \in K
        BY <2>2, InInserted
      <3>3. QED  BY <3>1, <3>2, InSamples
    <2>3. CASE r \notin Aged(T, i, t)
      BY <2>1, <2>3, InSamples
    <2>4. QED  BY <2>2, <2>3
  <1>2. ASSUME NEW s \in Samples(K) PROVE s \in Samples(T)
    <2>1. PICK q \in K : s \in q.samples
      BY InSamples
    <2>2. CASE q \in Inserted(T, i, t)
      <3>1. PICK r \in Aged(T, i, t) : q = Merged(T, i, t, B(r))
        BY <2>2, InInserted
      <3>2. \E p \in Aged(T, i, t) : s \in p.samples
        BY <2>1, <3>1, InMerged
      <3>3. QED  BY <3>2, InSamples DEF Aged
    <2>3. CASE q \in T
      BY <2>1, <2>3, InSamples
    <2>4. QED  BY <2>2, <2>3
  <1>3. QED  BY <1>1, <1>2

LEMMA TierKeepsDisjoint ==
    ASSUME NEW T, NEW i \in 1..NumTiers, NEW t \in Int, Disjoint(T)
    PROVE  Disjoint((T \ Aged(T, i, t)) \cup Inserted(T, i, t))
  <1> DEFINE A == Aged(T, i, t)
             B(r) == BucketStart(r.ts, Tiers[i].bucket)
             K == (T \ A) \cup Inserted(T, i, t)
  <1>0. SUFFICES ASSUME NEW r \in K, NEW q \in K, NEW s,
                        s \in r.samples, s \in q.samples
                 PROVE  r = q
    BY InDisjoint
  <1>1. \A x, y \in T : s \in x.samples /\ s \in y.samples => x = y
    BY InDisjoint
  <1>2. A \subseteq T
    BY DEF Aged
  <1>3. ASSUME NEW x \in Inserted(T, i, t), s \in x.samples
        PROVE  \E p \in A : s \in p.samples /\ x = Merged(T, i, t, B(p))
    <2>1. PICK p0 \in A : x = Merged(T, i, t, B(p0))
      BY InInserted
    <2>2. PICK p \in A : B(p) = B(p0) /\ s \in p.samples
      BY <1>3, <2>1, InMerged
    <2>3. QED  BY <2>1, <2>2
  <1>4. QED
    BY <1>0, <1>1, <1>2, <1>3

(* A step that leaves the tables and the open transaction alone keeps the  *)
(* invariant.                                                              *)
LEMMA InvStutter ==
    ASSUME Inv, UNCHANGED <<rows, lock, work, tier, verb, count, stored, pruned>>,
           lock # NoWriter => pc'[lock] = "tx" /\ at'[lock] = at[lock]
    PROVE  Inv'
  BY DEF Inv, NoSampleLost, NoDoubleCount, Numbered, TxInv, Spared

(* Every step keeps the partition: the heart of the argument is TierInsert, *)
(* after which the rows to be spared are already a partition, and TierDelete *)
(* and Commit, which make them the table.                                  *)
THEOREM InvInductive == TypeOK /\ Inv /\ [Next]_vars => Inv'
  <1> SUFFICES ASSUME TypeOK, Inv, [Next]_vars PROVE Inv'  OBVIOUS
  <1>1. CASE Tick
    BY <1>1, InvStutter DEF Tick, tx, Inv, TxInv
  <1>2. CASE StepBack
    BY <1>2, InvStutter DEF StepBack, tx, Inv, TxInv
  <1>3. ASSUME NEW w \in Writers,
               \/ InsertClock(w) \/ InsertFail(w) \/ ConsolidateClock(w)
               \/ BeginFail(w) \/ PruneClock(w) \/ PruneFail(w)
        PROVE  Inv'
    <2>1. UNCHANGED <<rows, lock, work, tier, verb, count, stored, pruned>>
      BY <1>3 DEF InsertClock, InsertFail, ConsolidateClock, BeginFail, PruneClock, PruneFail, tx
    <2>2. pc[w] # "tx" /\ \A v \in Writers \ {w} : pc'[v] = pc[v] /\ at'[v] = at[v]
      BY <1>3 DEF InsertClock, InsertFail, ConsolidateClock, BeginFail, PruneClock, PruneFail, Goto, TypeOK
    <2>3. lock # NoWriter => pc'[lock] = "tx" /\ at'[lock] = at[lock]
      BY <2>2 DEF Inv, TxInv, TypeOK
    <2>4. QED  BY <2>1, <2>3, InvStutter
  <1>4. ASSUME NEW w \in Writers, Insert(w) PROVE Inv'
    <2> DEFINE s == [n |-> count + 1, at |-> at[w]]
    <2>1. PICK i \in Intervals : rows' = rows \cup {RawRow(s, i)} /\ stored' = stored \cup {s}
      BY <1>4 DEF Insert
    <2>2. s \notin stored
      BY DEF Inv, Numbered, TypeOK
    <2>3. Samples(rows) \subseteq stored /\ pruned \subseteq stored
      BY DEF Inv, NoSampleLost
    <2>4. RawRow(s, i).samples = {s} /\ s.n = count + 1
      BY DEF RawRow
    <2> HIDE DEF s
    <2>5. Samples(rows') = Samples(rows) \cup {s}
      BY <2>1, <2>4 DEF Samples
    <2>6. \A r \in rows : s \notin r.samples
      BY <2>2, <2>3, InSamples
    <2>7. NoDoubleCount'
      BY <2>1, <2>4, <2>6 DEF Inv, NoDoubleCount, Disjoint
    <2>8. pruned' = pruned /\ count' = count + 1 /\ lock' = NoWriter
      BY <1>4 DEF Insert, tx
    <2>9. NoSampleLost' /\ Samples(rows') \cap pruned' = {}
      BY <2>1, <2>2, <2>3, <2>5, <2>8 DEF Inv, NoSampleLost
    <2>10. Numbered'
      BY <2>1, <2>4, <2>8 DEF Inv, Numbered, TypeOK, Sample
    <2>11. QED
      BY <2>7, <2>8, <2>9, <2>10 DEF Inv, TxInv
  <1>5. ASSUME NEW w \in Writers, Begin(w) PROVE Inv'
    <2>1. lock' = w /\ pc'[w] = "tx" /\ work' = rows /\ rows' = rows /\ verb' = "insert"
      BY <1>5 DEF Begin, Goto, TypeOK
    <2>2. UNCHANGED <<count, stored, pruned>>
      BY <1>5 DEF Begin
    <2>3. TxInv'
      BY <2>1 DEF TxInv, Inv, NoDoubleCount
    <2>4. QED
      BY <2>1, <2>2, <2>3 DEF Inv, NoSampleLost, NoDoubleCount, Numbered
  <1>6. ASSUME NEW w \in Writers, TierInsert(w) PROVE Inv'
    <2>1. /\ lock = w /\ w # NoWriter /\ tier \in 1..NumTiers /\ at[w] \in Int
          /\ verb = "insert" /\ verb' = "delete"
          /\ UNCHANGED <<rows, lock, tier, pc, at, count, stored, pruned>>
          /\ work' = work \cup Inserted(work, tier, at[w])
      BY <1>6, ConsolidationAssumption DEF TierInsert, TypeOK
    <2>2. Disjoint(work) /\ Samples(work) = Samples(rows) /\ pc[lock] = "tx"
      BY <2>1 DEF Inv, TxInv
    <2>3. Spared' = (work \ Aged(work, tier, at[w])) \cup Inserted(work, tier, at[w])
      BY <2>1, SparedByDelete DEF Spared
    <2>4. Disjoint(Spared') /\ Samples(Spared') = Samples(rows)
      BY <2>1, <2>2, <2>3, TierKeepsDisjoint, TierKeepsSamples
    <2>5. TxInv'
      BY <2>1, <2>2, <2>4, ConsolidationAssumption DEF TxInv
    <2>6. QED
      BY <2>1, <2>5 DEF Inv, NoSampleLost, NoDoubleCount, Numbered
  <1>7. ASSUME NEW w \in Writers, TierDelete(w) PROVE Inv'
    <2>1. /\ lock = w /\ w # NoWriter /\ verb = "delete" /\ verb' = "insert"
          /\ UNCHANGED <<rows, lock, pc, at, count, stored, pruned>>
          /\ work' = Spared
      BY <1>7, ConsolidationAssumption DEF TierDelete, Spared
    <2>2. TxInv'
      BY <2>1 DEF Inv, TxInv
    <2>3. QED
      BY <2>1, <2>2 DEF Inv, NoSampleLost, NoDoubleCount, Numbered
  <1>8. ASSUME NEW w \in Writers, Commit(w) PROVE Inv'
    <2>1. /\ lock = w /\ w # NoWriter /\ tier = NumTiers + 1
          /\ rows' = work /\ lock' = NoWriter
          /\ UNCHANGED <<count, stored, pruned>>
      BY <1>8, ConsolidationAssumption DEF Commit, EndTx
    <2>2. verb = "insert"
      BY <2>1, ConsolidationAssumption DEF Inv, TxInv, TypeOK
    <2>3. Disjoint(work) /\ Samples(work) = Samples(rows)
      BY <2>1, <2>2 DEF Inv, TxInv
    <2>4. QED
      BY <2>1, <2>3 DEF Inv, NoSampleLost, NoDoubleCount, Numbered, TxInv
  <1>9. ASSUME NEW w \in Writers, Rollback(w) PROVE Inv'
    BY <1>9 DEF Rollback, EndTx, Inv, NoSampleLost, NoDoubleCount, Numbered, TxInv
  <1>10. ASSUME NEW w \in Writers, Prune(w) PROVE Inv'
    <2>1. /\ rows' = rows \ Expired(w) /\ pruned' = pruned \cup Samples(Expired(w))
          /\ lock' = NoWriter /\ UNCHANGED <<count, stored>>
      BY <1>10 DEF Prune, tx
    <2>2. Samples(rows) = Samples(rows') \cup Samples(Expired(w))
      BY <2>1 DEF Samples, Expired
    <2>3. Samples(rows') \cap Samples(Expired(w)) = {}
      <3>1. SUFFICES ASSUME NEW s, s \in Samples(rows'), s \in Samples(Expired(w))
                     PROVE  FALSE
        OBVIOUS
      <3>2. PICK r \in rows' : s \in r.samples  BY <3>1, InSamples
      <3>3. PICK q \in Expired(w) : s \in q.samples  BY <3>1, InSamples
      <3>4. r = q  BY <2>1, <3>2, <3>3, InDisjoint DEF Inv, NoDoubleCount, Expired
      <3>5. QED  BY <2>1, <3>2, <3>3, <3>4
    <2>4. NoDoubleCount'
      BY <2>1 DEF Inv, NoDoubleCount, Disjoint
    <2>5. NoSampleLost' /\ Samples(rows') \cap pruned' = {}
      BY <2>1, <2>2, <2>3 DEF Inv, NoSampleLost
    <2>6. QED
      BY <2>1, <2>4, <2>5 DEF Inv, Numbered, TxInv
  <1>11. ASSUME NEW w \in Writers, Crash(w) PROVE Inv'
    <2>1. UNCHANGED <<rows, at, count, stored, pruned>>
      BY <1>11 DEF Crash
    <2>2. CASE lock = w
      BY <1>11, <2>1, <2>2 DEF Crash, EndTx, Inv, NoSampleLost, NoDoubleCount, Numbered, TxInv
    <2>3. CASE lock # w
      <3>1. UNCHANGED <<lock, work, tier, verb>> /\ \A v \in Writers \ {w} : pc'[v] = pc[v]
        BY <1>11, <2>3 DEF Crash, tx, TypeOK
      <3>2. lock # NoWriter => pc'[lock] = "tx" /\ at'[lock] = at[lock]
        BY <2>1, <2>3, <3>1 DEF Inv, TxInv, TypeOK
      <3>3. QED  BY <2>1, <3>1, <3>2, InvStutter
    <2>4. QED  BY <2>2, <2>3
  <1>12. CASE UNCHANGED vars
    BY <1>12, InvStutter DEF vars, Inv, TxInv
  <1>13. QED
    BY <1>1, <1>2, <1>3, <1>4, <1>5, <1>6, <1>7, <1>8, <1>9, <1>10, <1>11, <1>12
    DEF Next, Cycle

LEMMA InvInit == Init => Inv
  <1> SUFFICES ASSUME Init PROVE Inv  OBVIOUS
  <1>1. \A r \in rows : \E t \in LegacyStamps :
          r = RawRow([n |-> 0, at |-> t], NullBucket)
    BY DEF Init
  <1>2. NoDoubleCount
    <2>1. SUFFICES ASSUME NEW r \in rows, NEW q \in rows, NEW s,
                          s \in r.samples, s \in q.samples
                   PROVE  r = q
      BY InDisjoint DEF NoDoubleCount
    <2>2. PICK t \in LegacyStamps : r = RawRow([n |-> 0, at |-> t], NullBucket)
      BY <1>1
    <2>3. PICK u \in LegacyStamps : q = RawRow([n |-> 0, at |-> u], NullBucket)
      BY <1>1
    <2>4. s = [n |-> 0, at |-> t] /\ s = [n |-> 0, at |-> u]
      BY <2>1, <2>2, <2>3 DEF RawRow
    <2>5. t = u
      BY <2>4
    <2>6. QED  BY <2>2, <2>3, <2>5
  <1>3. Numbered
    <2>1. SUFFICES ASSUME NEW s \in stored PROVE s.n <= count
      BY DEF Numbered
    <2>2. PICK r \in rows : s \in r.samples
      BY InSamples DEF Init
    <2>3. PICK t \in LegacyStamps : r = RawRow([n |-> 0, at |-> t], NullBucket)
      BY <1>1
    <2>4. s = [n |-> 0, at |-> t]
      BY <2>2, <2>3 DEF RawRow
    <2>5. QED  BY <2>4 DEF Init
  <1>4. /\ stored = Samples(rows) /\ pruned = {} /\ lock = NoWriter
    BY DEF Init
  <1>5. QED
    BY <1>2, <1>3, <1>4 DEF Inv, NoSampleLost, TxInv

THEOREM InvHolds == Spec => []Inv
  BY InvInit, InvInductive, TypeCorrect, PTL DEF Spec

(* No consolidate pass, complete, failed or cut short by a crash, loses a  *)
(* sample, and no reader ever sees a sample averaged into two rows: for    *)
(* every ladder, any number of processes sharing the file, and a clock     *)
(* that may be set back.                                                   *)
THEOREM NothingLost == Spec => []NoSampleLost
  <1>1. Inv => NoSampleLost  BY DEF Inv
  <1>2. QED  BY <1>1, InvHolds, PTL

THEOREM NothingTwice == Spec => []NoDoubleCount
  <1>1. Inv => NoDoubleCount  BY DEF Inv
  <1>2. QED  BY <1>1, InvHolds, PTL
--------------------------------------------------------------------------------
(* Buckets.  The start of a bucket is the one multiple of its size within  *)
(* that size below, and the buckets of the ladder nest: where one size is  *)
(* a multiple of the other, a finer bucket lies whole within a coarser.    *)
LEMMA MultiplesOrdered ==
    ASSUME NEW m \in Int, NEW n \in Int, NEW b \in Nat \ {0}
    PROVE  /\ m <= n => m * b <= n * b
           /\ m * b < n * b => m + 1 <= n
  OBVIOUS

LEMMA InBucket ==
    ASSUME NEW ts \in Int, NEW bs \in Nat \ {0}
    PROVE  /\ BucketStart(ts, bs) \in Int
           /\ BucketStart(ts, bs) <= ts /\ ts < BucketStart(ts, bs) + bs
           /\ \E n \in Int : BucketStart(ts, bs) = n * bs
  <1>1. /\ BucketStart(ts, bs) \in Int
        /\ BucketStart(ts, bs) <= ts /\ ts < BucketStart(ts, bs) + bs
    BY DEF BucketStart
  <1>2. ts \div bs \in Int /\ BucketStart(ts, bs) = (ts \div bs) * bs
    BY DEF BucketStart
  <1>3. QED  BY <1>1, <1>2

LEMMA TheBucket ==
    ASSUME NEW ts \in Int, NEW bs \in Nat \ {0}, NEW n \in Int,
           n * bs <= ts, ts < n * bs + bs
    PROVE  BucketStart(ts, bs) = n * bs
  <1>1. PICK m \in Int : BucketStart(ts, bs) = m * bs
    BY InBucket
  <1>2. m * bs <= ts /\ ts < m * bs + bs
    BY <1>1, InBucket
  <1>3. m * bs + bs = (m + 1) * bs /\ n * bs + bs = (n + 1) * bs
    OBVIOUS
  <1>4. m * bs < (n + 1) * bs /\ n * bs < (m + 1) * bs
    BY <1>2, <1>3
  <1>5. m + 1 <= n + 1 /\ n + 1 <= m + 1
    BY <1>4, MultiplesOrdered
  <1>6. QED  BY <1>1, <1>5

LEMMA Aligned ==
    ASSUME NEW ts \in Int, NEW bs \in Nat \ {0}
    PROVE  BucketStart(BucketStart(ts, bs), bs) = BucketStart(ts, bs)
  <1>1. PICK n \in Int : BucketStart(ts, bs) = n * bs
    BY InBucket
  <1>2. n * bs \in Int /\ n * bs <= n * bs /\ n * bs < n * bs + bs
    OBVIOUS
  <1>3. QED  BY <1>1, <1>2, TheBucket

(* A finer bucket that starts before the end of a coarser one ends no      *)
(* later than it.                                                          *)
LEMMA NestedEnd ==
    ASSUME NEW ts \in Int, NEW b \in Nat \ {0}, NEW k \in Nat \ {0}, NEW n \in Int,
           NEW bs \in Nat \ {0}, bs = k * b, ts = n * b
    PROVE  ts + b <= BucketStart(ts, bs) + bs
  <1>1. PICK p \in Int : BucketStart(ts, bs) = p * bs
    BY InBucket
  <1>2. ts < p * bs + bs
    BY <1>1, InBucket
  <1>3. p * bs + bs = ((p + 1) * k) * b /\ (p + 1) * k \in Int
    OBVIOUS
  <1>4. n + 1 <= (p + 1) * k
    BY <1>2, <1>3, MultiplesOrdered
  <1>5. (n + 1) * b <= ((p + 1) * k) * b
    BY <1>3, <1>4, MultiplesOrdered
  <1>6. (n + 1) * b = n * b + b
    OBVIOUS
  <1>7. QED  BY <1>1, <1>3, <1>5, <1>6

LEMMA NestedStart ==
    ASSUME NEW ts \in Int, NEW b \in Nat \ {0}, NEW k \in Nat \ {0},
           NEW bs \in Nat \ {0}, bs = k * b
    PROVE  BucketStart(BucketStart(ts, b), bs) = BucketStart(ts, bs)
  <1>1. PICK n \in Int : BucketStart(ts, b) = n * b
    BY InBucket
  <1>2. PICK p \in Int : BucketStart(ts, bs) = p * bs
    BY InBucket
  <1>3. n * b <= ts /\ ts < n * b + b
    BY <1>1, InBucket
  <1>4. p * bs <= ts /\ ts < p * bs + bs
    BY <1>2, InBucket
  <1>5. p * bs <= n * b
    <2>1. p * bs = (p * k) * b /\ n * b + b = (n + 1) * b /\ p * k \in Int
      OBVIOUS
    <2>2. p * k + 1 <= n + 1
      BY <1>3, <1>4, <2>1, MultiplesOrdered
    <2>3. p * k <= n
      BY <2>1, <2>2
    <2>4. QED  BY <2>1, <2>3, MultiplesOrdered
  <1>6. n * b < p * bs + bs
    <2>1. n * b \in Int /\ p * bs \in Int
      OBVIOUS
    <2>2. QED  BY ONLY <1>3, <1>4, <2>1
  <1>7. n * b \in Int
    OBVIOUS
  <1>8. BucketStart(n * b, bs) = p * bs
    BY <1>5, <1>6, <1>7, TheBucket
  <1>9. QED  BY <1>1, <1>2, <1>8

(* The ladder's buckets grow, by whole factors. *)
LEMMA LadderGrows ==
    ASSUME NEW i \in 1..NumTiers, NEW j \in 1..NumTiers, i < j
    PROVE  /\ Tiers[i].bucket < Tiers[j].bucket
           /\ \E k \in Nat \ {0} : Tiers[j].bucket = k * Tiers[i].bucket
  <1>1. PICK k \in 2..Tiers[j].bucket : Tiers[j].bucket = k * Tiers[i].bucket
    BY LadderAssumption
  <1>2. k \in Nat \ {0} /\ k >= 2
    BY <1>1, TierType
  <1>3. ASSUME NEW b \in Nat \ {0}, NEW m \in Nat, m >= 2 PROVE b < m * b
    BY <1>3
  <1>4. Tiers[i].bucket < k * Tiers[i].bucket
    BY <1>2, <1>3, TierType
  <1>5. QED  BY <1>1, <1>2, <1>4
--------------------------------------------------------------------------------
(* What a step can do to the tables: nothing, drop the transaction, or be  *)
(* one of the six that matter to them.                                     *)
Quiet ==
    /\ UNCHANGED <<rows, lock, work, tier, verb, stored, pruned>>
    /\ lock # NoWriter => at'[lock] = at[lock]

Aborted == UNCHANGED <<rows, stored, pruned>> /\ lock' = NoWriter

Tells(w) ==
    Insert(w) \/ Begin(w) \/ TierInsert(w) \/ TierDelete(w) \/ Commit(w) \/ Prune(w)

LEMMA StepKinds ==
    ASSUME TypeOK, Inv, [Next]_vars
    PROVE  Quiet \/ Aborted \/ \E w \in Writers : Tells(w)
  <1>1. CASE Tick \/ StepBack \/ UNCHANGED vars
    BY <1>1 DEF Tick, StepBack, vars, tx, Quiet
  <1>2. ASSUME NEW w \in Writers,
               \/ InsertClock(w) \/ InsertFail(w) \/ ConsolidateClock(w)
               \/ BeginFail(w) \/ PruneClock(w) \/ PruneFail(w)
        PROVE  Quiet
    <2>1. UNCHANGED <<rows, lock, work, tier, verb, stored, pruned>>
      BY <1>2 DEF InsertClock, InsertFail, ConsolidateClock, BeginFail, PruneClock, PruneFail, tx
    <2>2. pc[w] # "tx" /\ \A v \in Writers \ {w} : at'[v] = at[v]
      BY <1>2 DEF InsertClock, InsertFail, ConsolidateClock, BeginFail, PruneClock, PruneFail, Goto, TypeOK
    <2>3. QED  BY <2>1, <2>2 DEF Quiet, Inv, TxInv, TypeOK
  <1>3. ASSUME NEW w \in Writers, Rollback(w) PROVE Aborted
    BY <1>3 DEF Rollback, EndTx, Aborted
  <1>4. ASSUME NEW w \in Writers, Crash(w) PROVE Quiet \/ Aborted
    BY <1>4 DEF Crash, EndTx, tx, Quiet, Aborted
  <1>5. QED
    BY <1>1, <1>2, <1>3, <1>4 DEF Next, Cycle, Tells

(* A tier's two statements, as the tables see them. *)
LEMMA InsertStatement ==
    ASSUME TypeOK, Inv, NEW w \in Writers, TierInsert(w)
    PROVE  /\ lock = w /\ w # NoWriter /\ tier \in 1..NumTiers /\ at[w] \in Nat
           /\ verb = "insert" /\ verb' = "delete" /\ work \in SUBSET Row
           /\ UNCHANGED <<rows, lock, tier, at, now, stored, pruned>>
           /\ work' = work \cup Inserted(work, tier, at[w])
           /\ Spared' = (work \ Aged(work, tier, at[w])) \cup Inserted(work, tier, at[w])
  <1>1. /\ lock = w /\ w # NoWriter /\ tier \in 1..NumTiers /\ at[w] \in Nat
        /\ verb = "insert" /\ verb' = "delete" /\ work \in SUBSET Row
        /\ UNCHANGED <<rows, lock, tier, at, now, stored, pruned>>
        /\ work' = work \cup Inserted(work, tier, at[w])
    BY ConsolidationAssumption DEF TierInsert, TypeOK
  <1>2. at[w] \in Int
    BY <1>1
  <1>3. Spared' = (work \ Aged(work, tier, at[w])) \cup Inserted(work, tier, at[w])
    BY <1>1, <1>2, SparedByDelete DEF Spared
  <1>4. QED  BY <1>1, <1>3

LEMMA DeleteStatement ==
    ASSUME TypeOK, Inv, NEW w \in Writers, TierDelete(w)
    PROVE  /\ lock = w /\ w # NoWriter /\ tier \in 1..NumTiers
           /\ verb = "delete" /\ verb' = "insert" /\ tier' = tier + 1
           /\ UNCHANGED <<rows, lock, at, now, stored, pruned>>
           /\ work' = Spared
  BY ConsolidationAssumption DEF TierDelete, TypeOK, Spared

(* A transaction that commits has nothing left to delete. *)
LEMMA Committed ==
    ASSUME TypeOK, Inv, NEW w \in Writers, Commit(w)
    PROVE  /\ lock = w /\ w # NoWriter /\ tier = NumTiers + 1 /\ verb = "insert"
           /\ rows' = work /\ lock' = NoWriter /\ UNCHANGED <<now, at, stored, pruned>>
           /\ Samples(rows') = Samples(rows)
  <1>1. /\ lock = w /\ w # NoWriter /\ tier = NumTiers + 1
        /\ rows' = work /\ lock' = NoWriter /\ UNCHANGED <<now, at, stored, pruned>>
    BY ConsolidationAssumption DEF Commit, EndTx
  <1>2. verb = "insert"
    BY <1>1, ConsolidationAssumption DEF Inv, TxInv, TypeOK
  <1>3. QED  BY <1>1, <1>2 DEF Inv, TxInv
--------------------------------------------------------------------------------
(* The tiers a transaction is past have nothing left that qualifies, and   *)
(* no later tier makes any: its rows are coarser.                          *)
PassInv == lock # NoWriter =>
    /\ verb = "insert" => \A i \in 1..NumTiers : i < tier => Aged(work, i, at[lock]) = {}
    /\ verb = "delete" => \A i \in 1..NumTiers : i <= tier => Aged(Spared, i, at[lock]) = {}

LEMMA TierLeavesNone ==
    ASSUME NEW T, NEW k \in 1..NumTiers, NEW t \in Int,
           \A i \in 1..NumTiers : i < k => Aged(T, i, t) = {},
           NEW i \in 1..NumTiers, i <= k
    PROVE  Aged((T \ Aged(T, k, t)) \cup Inserted(T, k, t), i, t) = {}
  <1>1. ASSUME NEW q \in Inserted(T, k, t)
        PROVE  ~Qualifies(q, i, t)
    <2>1. PICK b : q = Merged(T, k, t, b)
      BY DEF Inserted
    <2>2. q.bucket = Tiers[k].bucket
      BY <2>1 DEF Merged
    <2>3. i = k \/ Tiers[i].bucket < Tiers[k].bucket
      BY LadderGrows
    <2>4. QED
      BY <2>2, <2>3, TierType DEF Qualifies
  <1>2. ASSUME NEW q \in T \ Aged(T, k, t)
        PROVE  ~Qualifies(q, i, t)
    <2>1. i = k \/ Aged(T, i, t) = {}
      OBVIOUS
    <2>2. QED  BY <2>1 DEF Aged
  <1>3. QED
    BY <1>1, <1>2 DEF Aged

LEMMA PassInvInductive == TypeOK /\ Inv /\ PassInv /\ [Next]_vars => PassInv'
  <1> SUFFICES ASSUME TypeOK, Inv, PassInv, [Next]_vars PROVE PassInv'  OBVIOUS
  <1>1. CASE Quiet
    BY <1>1 DEF Quiet, PassInv, Spared
  <1>2. CASE Aborted
    BY <1>2 DEF Aborted, PassInv
  <1>3. ASSUME NEW w \in Writers, Insert(w) \/ Prune(w) PROVE PassInv'
    BY <1>3 DEF Insert, Prune, tx, PassInv
  <1>4. ASSUME NEW w \in Writers, Begin(w) PROVE PassInv'
    BY <1>4 DEF Begin, PassInv
  <1>5. ASSUME NEW w \in Writers, TierInsert(w) PROVE PassInv'
    <2>1. at[w] \in Int /\ \A i \in 1..NumTiers : i < tier => Aged(work, i, at[w]) = {}
      BY <1>5, InsertStatement DEF PassInv
    <2>2. \A i \in 1..NumTiers : i <= tier => Aged(Spared', i, at[w]) = {}
      BY <1>5, <2>1, InsertStatement, TierLeavesNone
    <2>3. QED
      BY <1>5, <2>2, InsertStatement DEF PassInv
  <1>6. ASSUME NEW w \in Writers, TierDelete(w) PROVE PassInv'
    <2>1. \A i \in 1..NumTiers : i <= tier => Aged(Spared, i, at[w]) = {}
      BY <1>6, DeleteStatement DEF PassInv
    <2>2. \A i \in 1..NumTiers : i < tier + 1 => i <= tier
      BY <1>6, DeleteStatement, ConsolidationAssumption
    <2>3. QED
      BY <1>6, <2>1, <2>2, DeleteStatement DEF PassInv
  <1>7. ASSUME NEW w \in Writers, Commit(w) PROVE PassInv'
    BY <1>7, Committed DEF PassInv
  <1>8. QED
    BY <1>1, <1>2, <1>3, <1>4, <1>5, <1>6, <1>7, StepKinds DEF Tells

(* A pass that commits leaves no row that had aged past a threshold when   *)
(* the pass read the clock, at any tier: the order of TIER_TRANSITIONS,    *)
(* finest first, is what takes a row through several of them at once.      *)
THEOREM PassAlwaysComplete == Spec => PassComplete
  <1>1. Init => PassInv
    BY DEF Init, PassInv
  <1>2. TypeOK /\ Inv /\ PassInv =>
          \A w \in Writers : Commit(w) =>
            \A i \in 1..NumTiers : Aged(rows', i, at[w]) = {}
    <2> SUFFICES ASSUME TypeOK, Inv, PassInv, NEW w \in Writers, Commit(w),
                        NEW i \in 1..NumTiers
                 PROVE  Aged(rows', i, at[w]) = {}
      OBVIOUS
    <2>1. i < NumTiers + 1
      BY ConsolidationAssumption
    <2>2. QED
      BY <2>1, Committed DEF PassInv
  <1>3. QED
    BY <1>1, <1>2, PassInvInductive, InvHolds, TypeCorrect, PTL DEF Spec, PassComplete
--------------------------------------------------------------------------------
(* From here on the wall clock is not set back: a row made by an hour's    *)
(* pass is too fresh again when the clock goes back an hour.               *)
Monotonic == MaxStepBack = 0

(* No process has read a later clock than there is, nor holds a row for    *)
(* longer than step_with_retry lets it.                                    *)
Clocks ==
    /\ \A w \in Writers : at[w] <= now
    /\ \A w \in Writers : pc[w] = "insert" => now - at[w] <= MaxStall

LEMMA ClocksInductive ==
    ASSUME Monotonic, TypeOK, Clocks, [Next]_vars
    PROVE  Clocks' /\ now <= now'
  <1>1. CASE Tick
    BY <1>1 DEF Tick, TypeOK, Clocks
  <1>2. CASE StepBack
    BY <1>2 DEF StepBack, Monotonic
  <1>3. ASSUME NEW w \in Writers, Cycle(w) PROVE Clocks' /\ now <= now'
    <2>1. now' = now /\ at' \in {at, [at EXCEPT ![w] = now]}
      BY <1>3 DEF Cycle, InsertClock, Insert, InsertFail, ConsolidateClock, Begin, BeginFail,
                  TierInsert, TierDelete, Commit, Rollback, PruneClock, Prune, PruneFail
    <2>2. \A v \in Writers : pc'[v] = "insert" => pc[v] = "insert" \/ at'[v] = now
      BY <1>3 DEF Cycle, InsertClock, Insert, InsertFail, ConsolidateClock, Begin, BeginFail,
                  TierInsert, TierDelete, Commit, Rollback, PruneClock, Prune, PruneFail,
                  Goto, TypeOK
    <2>3. \A v \in Writers : at'[v] \in {at[v], now} /\ at[v] \in Nat
      BY <2>1 DEF TypeOK
    <2>4. now \in Nat /\ MaxStall \in Nat
      BY ConsolidationAssumption DEF TypeOK
    <2>5. \A v \in Writers : at'[v] <= now'
      BY <2>1, <2>3, <2>4 DEF Clocks
    <2>6. \A v \in Writers : pc'[v] = "insert" => now' - at'[v] <= MaxStall
      BY <2>1, <2>2, <2>3, <2>4 DEF Clocks
    <2>7. QED
      BY <2>1, <2>4, <2>5, <2>6 DEF Clocks
  <1>4. ASSUME NEW w \in Writers, Crash(w) PROVE Clocks' /\ now <= now'
    <2>1. UNCHANGED <<now, at>> /\ \A v \in Writers : pc'[v] = "insert" => pc[v] = "insert"
      BY <1>4 DEF Crash, TypeOK
    <2>2. QED
      BY <2>1 DEF TypeOK, Clocks
  <1>5. CASE UNCHANGED vars
    BY <1>5 DEF vars, TypeOK, Clocks
  <1>6. QED
    BY <1>1, <1>2, <1>3, <1>4, <1>5 DEF Next

(* A raw row stands for one instant; a merged row for samples of its       *)
(* bucket alone, which starts at a multiple of the tier's size and whose   *)
(* end had aged past the tier's threshold by t.                            *)
Shape(r, t) ==
    /\ r.kind = "raw" => \A s \in r.samples : s.at = r.ts
    /\ r.kind = "merged" =>
         /\ \E i \in 1..NumTiers :
              r.bucket = Tiers[i].bucket /\ r.ts + r.bucket <= t - Tiers[i].threshold
         /\ BucketStart(r.ts, r.bucket) = r.ts
         /\ \A s \in r.samples : r.ts <= s.at /\ s.at < r.ts + r.bucket

Shaped(T, t) == \A r \in T : Shape(r, t)

(* What is closed stays closed as the clock goes on. *)
LEMMA ShapedLater ==
    ASSUME NEW T \in SUBSET Row, NEW t \in Int, NEW u \in Int, t <= u, Shaped(T, t)
    PROVE  Shaped(T, u)
  <1> SUFFICES ASSUME NEW r \in T PROVE Shape(r, u)
    BY DEF Shaped
  <1>1. Shape(r, t) /\ r.ts \in Int /\ r.bucket \in Nat
    BY DEF Shaped, Row
  <1>2. ASSUME NEW i \in 1..NumTiers, r.ts + r.bucket <= t - Tiers[i].threshold
        PROVE  r.ts + r.bucket <= u - Tiers[i].threshold
    BY <1>1, <1>2, TierType
  <1>3. QED
    BY <1>1, <1>2 DEF Shape

(* Where one row that tier k merges lies in the bucket it goes to. *)
LEMMA MergedWithin ==
    ASSUME NEW k \in 1..NumTiers, NEW t \in Int, NEW u \in Int,
           NEW p \in Row, Shape(p, u), Qualifies(p, k, t),
           NEW s \in p.samples
    PROVE  LET b == BucketStart(p.ts, Tiers[k].bucket)
           IN  b <= s.at /\ s.at < b + Tiers[k].bucket
  <1> DEFINE bs == Tiers[k].bucket
             b == BucketStart(p.ts, bs)
  <1>1. bs \in Nat \ {0} /\ p.ts \in Int /\ p.bucket < bs /\ p.kind \in {"raw", "merged"}
    BY TierType DEF Qualifies, Row
  <1>2. b \in Int /\ b <= p.ts /\ p.ts < b + bs
    BY <1>1, InBucket
  <1>3. CASE p.kind = "raw"
    BY <1>2, <1>3 DEF Shape
  <1>4. CASE p.kind = "merged"
    <2>1. PICK i \in 1..NumTiers : p.bucket = Tiers[i].bucket
      BY <1>4 DEF Shape
    <2>2. Tiers[i].bucket \in Nat \ {0} /\ ~(k < i) /\ i # k
      BY <1>1, <2>1, LadderGrows, TierType
    <2>3. i < k
      BY <2>2
    <2>4. PICK m \in Nat \ {0} : bs = m * p.bucket
      BY <2>1, <2>3, LadderGrows
    <2>5. PICK n \in Int : p.ts = n * p.bucket
      <3>1. BucketStart(p.ts, p.bucket) = p.ts
        BY <1>4 DEF Shape
      <3>2. p.bucket \in Nat \ {0}
        BY <2>1, <2>2
      <3>3. \E n \in Int : BucketStart(p.ts, p.bucket) = n * p.bucket
        BY <1>1, <3>2, InBucket
      <3>4. QED  BY <3>1, <3>3
    <2>6. p.ts + p.bucket <= b + bs
      BY <1>1, <2>1, <2>2, <2>4, <2>5, NestedEnd
    <2>7. p.ts <= s.at /\ s.at < p.ts + p.bucket
      BY <1>4 DEF Shape
    <2>8. s.at \in Int /\ p.bucket \in Int
      BY DEF Row, Sample
    <2>9. QED
      BY <1>1, <1>2, <2>6, <2>7, <2>8
  <1>5. QED
    BY <1>1, <1>3, <1>4

(* A tier's INSERT, at or after the instant it takes for now, adds rows of *)
(* that shape.                                                             *)
LEMMA InsertedShaped ==
    ASSUME NEW T \in SUBSET Row, NEW k \in 1..NumTiers, NEW t \in Int, NEW u \in Int,
           t <= u, Shaped(T, u)
    PROVE  Shaped(Inserted(T, k, t), u)
  <1> SUFFICES ASSUME NEW p \in Aged(T, k, t)
               PROVE  Shape(Merged(T, k, t, BucketStart(p.ts, Tiers[k].bucket)), u)
    BY DEF Shaped, Inserted
  <1> DEFINE bs == Tiers[k].bucket
             b == BucketStart(p.ts, bs)
             q == Merged(T, k, t, b)
  <1>1. q.ts = b /\ q.bucket = bs /\ q.kind = "merged"
    BY DEF Merged
  <1>2. bs \in Nat \ {0} /\ Tiers[k].threshold \in Nat /\ p.ts \in Int
    BY TierType DEF Aged, Row
  <1>3. b \in Int /\ b + bs <= t - Tiers[k].threshold
    BY <1>2, InBucket DEF Aged, Qualifies
  <1>4. b + bs <= u - Tiers[k].threshold
    BY <1>2, <1>3
  <1>5. BucketStart(b, bs) = b
    BY <1>2, Aligned
  <1>6. ASSUME NEW s \in q.samples
        PROVE  b <= s.at /\ s.at < b + bs
    <2>1. PICK r \in Aged(T, k, t) : BucketStart(r.ts, bs) = b /\ s \in r.samples
      BY InMerged
    <2>2. r \in Row /\ Shape(r, u) /\ Qualifies(r, k, t)
      BY DEF Aged, Shaped
    <2>3. QED
      BY <2>1, <2>2, MergedWithin
  <1> HIDE DEF b, bs, q
  <1>7. Shape(q, u)
    <2>1. \E i \in 1..NumTiers : q.bucket = Tiers[i].bucket /\ q.ts + q.bucket <= u - Tiers[i].threshold
      BY <1>1, <1>4 DEF bs
    <2>2. QED
      BY <1>1, <1>5, <1>6, <2>1 DEF Shape
  <1>8. QED
    BY <1>7 DEF q, b, bs
--------------------------------------------------------------------------------
(* A bucket holds one merged row, and no row finer than it is left, or     *)
(* comes, to be merged into a bucket that already has its row.             *)
Single(T) ==
    \A r, q \in T :
        /\ r.kind = "merged" /\ q.kind = "merged"
        /\ r.bucket = q.bucket /\ r.ts = q.ts
        => r = q

Sealed(T) ==
    \A r, q \in T :
        r.kind = "merged" /\ q.bucket < r.bucket => BucketStart(q.ts, r.bucket) # r.ts

LEMMA TierKeepsSealed ==
    ASSUME NEW T \in SUBSET Row, NEW k \in 1..NumTiers, NEW t \in Int, NEW u \in Int,
           Shaped(T, u), Sealed(T)
    PROVE  Sealed((T \ Aged(T, k, t)) \cup Inserted(T, k, t))
  <1> DEFINE bs == Tiers[k].bucket
             K == (T \ Aged(T, k, t)) \cup Inserted(T, k, t)
  <1>1. SUFFICES ASSUME NEW r \in K, NEW q \in K, r.kind = "merged", q.bucket < r.bucket,
                        BucketStart(q.ts, r.bucket) = r.ts
                 PROVE  FALSE
    BY DEF Sealed
  <1>2. bs \in Nat \ {0}
    BY TierType
  <1>3. CASE r \in Inserted(T, k, t)
    <2>1. PICK p \in Aged(T, k, t) : r = Merged(T, k, t, BucketStart(p.ts, bs))
      BY <1>3, InInserted
    <2>2. r.bucket = bs /\ r.ts = BucketStart(p.ts, bs)
      BY <2>1 DEF Merged
    <2>3. CASE q \in Inserted(T, k, t)
      <3>1. PICK b : q = Merged(T, k, t, b)
        BY <2>3 DEF Inserted
      <3>2. q.bucket = bs
        BY <3>1 DEF Merged
      <3>3. QED  BY <1>1, <1>2, <2>2, <3>2
    <2>4. CASE q \in T \ Aged(T, k, t)
      <3>1. Qualifies(p, k, t)
        BY DEF Aged
      <3>2. Qualifies(q, k, t)
        BY <1>1, <2>2, <3>1 DEF Qualifies
      <3>3. QED  BY <2>4, <3>2 DEF Aged
    <2>5. QED  BY <2>3, <2>4
  <1>4. CASE r \in T \ Aged(T, k, t)
    <2>1. CASE q \in T
      BY <1>1, <1>4, <2>1 DEF Sealed
    <2>2. CASE q \in Inserted(T, k, t)
      <3>1. PICK p \in Aged(T, k, t) : q = Merged(T, k, t, BucketStart(p.ts, bs))
        BY <2>2, InInserted
      <3>2. q.bucket = bs /\ q.ts = BucketStart(p.ts, bs)
        BY <3>1 DEF Merged
      <3>3. PICK j \in 1..NumTiers : r.bucket = Tiers[j].bucket
        BY <1>1, <1>4 DEF Shaped, Shape
      <3>4. r.bucket \in Nat \ {0} /\ ~(j < k) /\ j # k
        BY <1>1, <1>2, <3>2, <3>3, LadderGrows, TierType
      <3>5. k < j
        BY <3>4
      <3>6. PICK m \in Nat \ {0} : r.bucket = m * bs
        BY <3>3, <3>5, LadderGrows
      <3>7. p \in T /\ p.ts \in Int /\ p.bucket \in Nat /\ p.bucket < bs
        BY DEF Aged, Qualifies, Row
      <3>8. BucketStart(q.ts, r.bucket) = BucketStart(p.ts, r.bucket)
        BY <1>2, <3>2, <3>4, <3>6, <3>7, NestedStart
      <3>9. p.bucket < r.bucket
        BY <1>1, <1>2, <3>2, <3>4, <3>7
      <3>10. QED
        BY <1>1, <1>4, <3>7, <3>8, <3>9 DEF Sealed
    <2>3. QED  BY <2>1, <2>2
  <1>5. QED  BY <1>3, <1>4

LEMMA TierKeepsSingle ==
    ASSUME NEW T \in SUBSET Row, NEW k \in 1..NumTiers, NEW t \in Int, Sealed(T), Single(T)
    PROVE  Single((T \ Aged(T, k, t)) \cup Inserted(T, k, t))
  <1> DEFINE bs == Tiers[k].bucket
             K == (T \ Aged(T, k, t)) \cup Inserted(T, k, t)
  <1>1. SUFFICES ASSUME NEW r \in K, NEW q \in K, r.kind = "merged", q.kind = "merged",
                        r.bucket = q.bucket, r.ts = q.ts
                 PROVE  r = q
    BY DEF Single
  <1>2. ASSUME NEW x \in Inserted(T, k, t)
        PROVE  /\ x.bucket = bs /\ x = Merged(T, k, t, x.ts)
               /\ \E p \in T : p.bucket < bs /\ BucketStart(p.ts, bs) = x.ts
    <2>1. PICK p \in Aged(T, k, t) : x = Merged(T, k, t, BucketStart(p.ts, bs))
      BY InInserted
    <2>2. x.bucket = bs /\ x.ts = BucketStart(p.ts, bs)
      BY <2>1 DEF Merged
    <2>3. p \in T /\ p.bucket < bs
      BY DEF Aged, Qualifies
    <2>4. QED  BY <2>1, <2>2, <2>3
  <1>3. ASSUME NEW x \in T, x.kind = "merged", NEW y \in Inserted(T, k, t),
               x.bucket = y.bucket, x.ts = y.ts
        PROVE  FALSE
    <2>1. PICK p \in T : p.bucket < bs /\ BucketStart(p.ts, bs) = y.ts /\ y.bucket = bs
      BY <1>2
    <2>2. QED  BY <1>3, <2>1 DEF Sealed
  <1>4. QED
    BY <1>1, <1>2, <1>3 DEF Single

(* A row stored now falls after every merged bucket: one it could have     *)
(* fallen into was closed longer ago than a row may wait to be stored.     *)
LEMMA RawKeepsSealed ==
    ASSUME NEW T \in SUBSET Row, NEW u \in Int, Shaped(T, u), Sealed(T),
           NEW q \in Row, q.kind = "raw", u - q.ts <= MaxStall
    PROVE  Sealed(T \cup {q})
  <1>1. SUFFICES ASSUME NEW r \in T, r.kind = "merged"
                 PROVE  BucketStart(q.ts, r.bucket) # r.ts
    BY DEF Sealed
  <1>2. PICK i \in 1..NumTiers :
          r.bucket = Tiers[i].bucket /\ r.ts + r.bucket <= u - Tiers[i].threshold
    BY <1>1 DEF Shaped, Shape
  <1>3. /\ r.bucket \in Nat \ {0} /\ Tiers[i].threshold \in Nat
        /\ MaxStall \in Nat /\ MaxStall <= Tiers[i].threshold
        /\ q.ts \in Int /\ r.ts \in Int
    BY <1>2, TierType, ConsolidationAssumption, LadderAssumption DEF Row
  <1>4. q.ts < BucketStart(q.ts, r.bucket) + r.bucket
    BY <1>3, InBucket
  <1>5. r.ts + r.bucket <= q.ts
    BY <1>2, <1>3
  <1>6. QED
    BY <1>3, <1>4, <1>5
--------------------------------------------------------------------------------
(* The table is so, and so is what the open transaction will make of it.   *)
Neat(T) == Single(T) /\ Sealed(T)

LadderInv ==
    /\ Clocks
    /\ Shaped(rows, now) /\ Neat(rows)
    /\ lock # NoWriter =>
         /\ Shaped(work, now)
         /\ verb = "insert" => Neat(work)
         /\ verb = "delete" => Neat(Spared)

LEMMA LadderInvInit == Init => LadderInv
  <1> SUFFICES ASSUME Init PROVE LadderInv  OBVIOUS
  <1>1. \A r \in rows : r.kind = "raw" /\ \A s \in r.samples : s.at = r.ts
    BY DEF Init, RawRow
  <1>2. Shaped(rows, now) /\ Neat(rows)
    BY <1>1 DEF Shaped, Shape, Neat, Single, Sealed
  <1>3. Clocks
    BY ConsolidationAssumption DEF Init, Clocks
  <1>4. QED
    BY <1>2, <1>3 DEF Init, LadderInv

LEMMA LadderInvInductive ==
    ASSUME Monotonic, TypeOK, Inv, LadderInv, [Next]_vars
    PROVE  LadderInv'
  <1>0. /\ Clocks' /\ now \in Int /\ now' \in Int /\ now <= now'
        /\ rows \in SUBSET Row /\ work \in SUBSET Row
        /\ Shaped(rows, now') /\ (lock # NoWriter => Shaped(work, now'))
    <2>1. Clocks' /\ now <= now'
      BY ClocksInductive DEF LadderInv
    <2>2. now \in Int /\ now' \in Int
      <3>1. CASE UNCHANGED now
        BY <3>1 DEF TypeOK
      <3>2. CASE now' # now
        <4>1. Tick \/ StepBack
          BY <3>2 DEF Next, Cycle, InsertClock, Insert, InsertFail, ConsolidateClock, Begin,
                      BeginFail, TierInsert, TierDelete, Commit, Rollback, PruneClock, Prune,
                      PruneFail, Crash, vars
        <4>2. QED
          BY <4>1, ConsolidationAssumption DEF Tick, StepBack, TypeOK
      <3>3. QED  BY <3>1, <3>2
    <2>3. rows \in SUBSET Row /\ work \in SUBSET Row
      BY DEF TypeOK
    <2>4. Shaped(rows, now') /\ (lock # NoWriter => Shaped(work, now'))
      BY <2>1, <2>2, <2>3, ShapedLater DEF LadderInv
    <2>5. QED  BY <2>1, <2>2, <2>3, <2>4
  <1>1. CASE Quiet
    BY <1>0, <1>1 DEF Quiet, LadderInv, Spared
  <1>2. CASE Aborted
    BY <1>0, <1>2 DEF Aborted, LadderInv
  <1>3. ASSUME NEW w \in Writers, Insert(w) PROVE LadderInv'
    <2>1. PICK i \in Intervals : rows' = rows \cup {RawRow([n |-> count + 1, at |-> at[w]], i)}
      BY <1>3 DEF Insert
    <2> DEFINE s == [n |-> count + 1, at |-> at[w]]
               q == RawRow(s, i)
    <2>2. q \in Row
      <3>1. s \in Sample
        BY DEF TypeOK, Sample
      <3>2. i \in Nat
        BY ConsolidationAssumption
      <3>3. QED
        BY <3>1, <3>2 DEF RawRow, Row, Sample
    <2>3. q.kind = "raw" /\ q.ts = at[w] /\ \A x \in q.samples : x.at = q.ts
      BY DEF RawRow
    <2>4. now - q.ts <= MaxStall
      BY <1>3, <2>3 DEF Insert, Goto, LadderInv, Clocks
    <2> HIDE DEF q
    <2>5. Shaped(rows', now')
      BY <1>0, <2>1, <2>3 DEF Shaped, Shape, q
    <2>6. Sealed(rows')
      BY <1>0, <2>1, <2>2, <2>3, <2>4, RawKeepsSealed DEF LadderInv, Neat, q
    <2>7. Single(rows')
      BY <2>1, <2>3 DEF LadderInv, Neat, Single, q
    <2>8. lock' = NoWriter
      BY <1>3 DEF Insert, tx
    <2>9. QED
      BY <1>0, <2>5, <2>6, <2>7, <2>8 DEF LadderInv, Neat
  <1>4. ASSUME NEW w \in Writers, Begin(w) PROVE LadderInv'
    <2>1. work' = rows /\ rows' = rows /\ verb' = "insert"
      BY <1>4 DEF Begin
    <2>2. QED
      BY <1>0, <2>1 DEF LadderInv
  <1>5. ASSUME NEW w \in Writers, TierInsert(w) PROVE LadderInv'
    <2>1. Shaped(work, now) /\ Neat(work) /\ now' = now /\ at[w] \in Int /\ at[w] <= now
      BY <1>0, <1>5, InsertStatement DEF LadderInv, Clocks
    <2>2. Shaped(Inserted(work, tier, at[w]), now)
      BY <1>0, <1>5, <2>1, InsertStatement, InsertedShaped
    <2>3. Shaped(work', now')
      BY <1>5, <2>1, <2>2, InsertStatement DEF Shaped
    <2>4. Neat(Spared')
      <3>1. tier \in 1..NumTiers
        BY <1>5, InsertStatement
      <3>2. Single(work) /\ Sealed(work)
        BY <2>1 DEF Neat
      <3>3. Single((work \ Aged(work, tier, at[w])) \cup Inserted(work, tier, at[w]))
        BY <1>0, <2>1, <3>1, <3>2, TierKeepsSingle
      <3>4. Sealed((work \ Aged(work, tier, at[w])) \cup Inserted(work, tier, at[w]))
        BY <1>0, <2>1, <3>1, <3>2, TierKeepsSealed
      <3>5. QED
        BY <1>5, <3>3, <3>4, InsertStatement DEF Neat
    <2>5. rows' = rows /\ verb' = "delete"
      BY <1>5, InsertStatement
    <2>6. QED
      BY <1>0, <2>3, <2>4, <2>5 DEF LadderInv
  <1>6. ASSUME NEW w \in Writers, TierDelete(w) PROVE LadderInv'
    <2>1. /\ lock # NoWriter /\ rows' = rows /\ now' = now /\ work' = Spared
          /\ verb = "delete" /\ verb' = "insert"
      BY <1>6, DeleteStatement
    <2>2. Shaped(Spared, now) /\ Neat(Spared)
      BY <2>1 DEF LadderInv, Spared, Shaped
    <2>3. QED
      BY <1>0, <2>1, <2>2 DEF LadderInv
  <1>7. ASSUME NEW w \in Writers, Commit(w) PROVE LadderInv'
    BY <1>0, <1>7, Committed DEF LadderInv
  <1>8. ASSUME NEW w \in Writers, Prune(w) PROVE LadderInv'
    <2>1. rows' \subseteq rows /\ lock' = NoWriter
      BY <1>8 DEF Prune, tx
    <2>2. Shaped(rows', now') /\ Neat(rows')
      BY <1>0, <2>1 DEF LadderInv, Shaped, Neat, Single, Sealed
    <2>3. QED
      BY <1>0, <2>1, <2>2 DEF LadderInv
  <1>9. QED
    BY <1>1, <1>2, <1>3, <1>4, <1>5, <1>6, <1>7, <1>8, StepKinds DEF Tells

LEMMA LadderInvHolds ==
    ASSUME Monotonic
    PROVE  Spec => []LadderInv
  <1>1. TypeOK /\ Inv /\ LadderInv /\ [Next]_vars => LadderInv'
    BY LadderInvInductive
  <1>2. QED
    BY <1>1, LadderInvInit, InvHolds, TypeCorrect, PTL DEF Spec

(* Whatever the collect intervals, and however many processes' passes fall *)
(* between, a tier's bucket is merged once: with a clock that is not set   *)
(* back, for every ladder of nested buckets.                               *)
THEOREM OneRowAlways ==
    ASSUME Monotonic
    PROVE  Spec => []OneRowPerBucket
  <1>1. LadderInv => OneRowPerBucket
    BY DEF LadderInv, Neat, Single, OneRowPerBucket
  <1>2. QED
    BY <1>1, LadderInvHolds, PTL

(* And no history younger than a tier's threshold is ever at that tier's   *)
(* resolution, nor is a sample averaged into a bucket it does not fall in. *)
THEOREM FreshAlwaysFine ==
    ASSUME Monotonic
    PROVE  Spec => []FreshNeverCoarse
  <1>1. LadderInv => FreshNeverCoarse
    BY DEF LadderInv, Shaped, Shape, FreshNeverCoarse
  <1>2. QED
    BY <1>1, LadderInvHolds, PTL
--------------------------------------------------------------------------------
(* The refinement: a pass in the making is no step of SampleStore at all,  *)
(* and the commit, which replaces the table, keeps its samples.            *)
blur == IF NumTiers = 0 THEN 1 ELSE Tiers[NumTiers].bucket

LEMMA BlurBounds ==
    /\ blur \in Nat \ {0}
    /\ \A i \in 1..NumTiers : Tiers[i].bucket <= blur
  <1>1. CASE NumTiers = 0
    BY <1>1 DEF blur
  <1>2. CASE NumTiers # 0
    <2>1. NumTiers \in 1..NumTiers
      BY <1>2, ConsolidationAssumption
    <2>2. ASSUME NEW i \in 1..NumTiers PROVE Tiers[i].bucket <= Tiers[NumTiers].bucket
      <3>1. i = NumTiers \/ i < NumTiers
        BY <2>1
      <3>2. QED  BY <2>1, <3>1, LadderGrows, TierType
    <2>3. QED  BY <1>2, <2>1, <2>2, TierType DEF blur
  <1>3. QED  BY <1>1, <1>2

(* What a prune removes had expired, by less than a bucket's width. *)
LEMMA ExpiredOld ==
    ASSUME TypeOK, LadderInv, NEW w \in Writers, NEW s \in Samples(Expired(w))
    PROVE  s.at < now - Retention + blur
  <1>1. PICK r \in rows : r.ts < at[w] - Retention /\ s \in r.samples
    BY InSamples DEF Expired
  <1>2. r \in Row /\ Shape(r, now) /\ at[w] <= now /\ at[w] \in Int /\ now \in Int
    BY DEF TypeOK, LadderInv, Shaped, Clocks
  <1>3. r.ts \in Int /\ s.at \in Int /\ Retention \in Int /\ blur \in Nat \ {0}
    BY <1>1, <1>2, ConsolidationAssumption, BlurBounds DEF Row, Sample
  <1>4. CASE r.kind = "raw"
    BY <1>1, <1>2, <1>3, <1>4 DEF Shape
  <1>5. CASE r.kind = "merged"
    <2>1. PICK i \in 1..NumTiers : r.bucket = Tiers[i].bucket
      BY <1>2, <1>5 DEF Shape
    <2>2. r.bucket <= blur /\ r.bucket \in Nat
      BY <2>1, BlurBounds, TierType
    <2>3. s.at < r.ts + r.bucket
      BY <1>1, <1>2, <1>5 DEF Shape
    <2>4. QED
      BY <1>1, <1>2, <1>3, <2>2, <2>3
  <1>6. QED
    BY <1>2, <1>4, <1>5 DEF Row

(* A prune takes the samples of the rows it deletes, and no other.         *)
LEMMA PruneTakes ==
    ASSUME Inv, NEW w \in Writers, Prune(w)
    PROVE  Samples(rows) \ Samples(rows') = Samples(Expired(w))
  <1>1. rows' = rows \ Expired(w) /\ Expired(w) \subseteq rows
    BY DEF Prune, Expired
  <1>2. ASSUME NEW s \in Samples(Expired(w)) PROVE s \in Samples(rows) /\ s \notin Samples(rows')
    <2>1. PICK q \in Expired(w) : s \in q.samples
      BY InSamples
    <2>2. \A r \in rows : s \in r.samples => r = q
      BY <1>1, <2>1, InDisjoint DEF Inv, NoDoubleCount
    <2>3. QED  BY <1>1, <2>1, <2>2, InSamples
  <1>3. ASSUME NEW s \in Samples(rows), s \notin Samples(rows') PROVE s \in Samples(Expired(w))
    BY <1>1, <1>3, InSamples
  <1>4. QED  BY <1>2, <1>3

LEMMA StoreInit == Init => Store!Init
  <1> SUFFICES ASSUME Init PROVE Store!Init  OBVIOUS
  <1>1. now \in Nat /\ pruned = {}
    BY ConsolidationAssumption DEF Init
  <1>2. ASSUME NEW s \in Samples(rows) PROVE s \in [n : Nat, at : 0..now]
    <2>1. PICK r \in rows : s \in r.samples
      BY InSamples
    <2>2. PICK t \in LegacyStamps : r = RawRow([n |-> 0, at |-> t], NullBucket)
      BY DEF Init
    <2>3. s = [n |-> 0, at |-> t] /\ t \in 0..now
      BY <2>1, <2>2, ConsolidationAssumption DEF RawRow, Init
    <2>4. QED  BY <2>3
  <1>3. QED
    BY <1>1, <1>2 DEF Store!Init

LEMMA StoreStep ==
    ASSUME Monotonic, TypeOK, Inv, LadderInv, [Next]_vars
    PROVE  Store!Next \/ UNCHANGED Store!vars
  <1>1. CASE Tick
    <2>1. now' \in Nat /\ now' > now /\ UNCHANGED <<Samples(rows), pruned>>
      BY <1>1 DEF Tick, TypeOK, Samples
    <2>2. QED  BY <2>1 DEF Store!Next, Store!Pass
  <1>2. CASE StepBack
    BY <1>2 DEF StepBack, Monotonic
  <1>3. ASSUME NEW w \in Writers, Insert(w) PROVE Store!Next
    <2>1. PICK i \in Intervals : /\ rows' = rows \cup {RawRow([n |-> count + 1, at |-> at[w]], i)}
                                 /\ UNCHANGED <<now, pruned>>
      BY <1>3 DEF Insert
    <2> DEFINE s == [n |-> count + 1, at |-> at[w]]
    <2>2. s \notin stored
      BY DEF Inv, Numbered, TypeOK
    <2>3. RawRow(s, i).samples = {s}
      BY DEF RawRow
    <2> HIDE DEF s
    <2>4. Samples(rows') = Samples(rows) \cup {s}
      BY <2>1, <2>3 DEF Samples, s
    <2>5. s \notin Samples(rows) \cup pruned
      BY <2>2 DEF Inv, NoSampleLost
    <2>6. Store!Store(s) /\ s \in Samples(rows')
      BY <2>1, <2>4, <2>5 DEF Store!Store
    <2>7. QED  BY <2>6 DEF Store!Next
  <1>4. ASSUME NEW w \in Writers, Prune(w) PROVE Store!Next \/ UNCHANGED Store!vars
    <2> DEFINE E == Samples(rows) \ Samples(rows')
    <2>1. E = Samples(Expired(w))
      BY <1>4, PruneTakes
    <2>2. /\ pruned' = pruned \cup E /\ now' = now
          /\ Samples(rows') = Samples(rows) \ E
      <3>1. Samples(rows') \subseteq Samples(rows)
        BY <1>4, InSamples DEF Prune
      <3>2. QED  BY <1>4, <2>1, <3>1 DEF Prune
    <2>3. \A s \in E : s.at < now - Retention + blur
      BY <2>1, ExpiredOld
    <2>4. CASE E = {}
      BY <2>2, <2>4 DEF Store!vars
    <2>5. CASE E # {}
      <3>1. Store!Expire(E)
        BY <2>2, <2>3, <2>5 DEF Store!Expire, blur
      <3>2. QED  BY <3>1 DEF Store!Next
    <2>6. QED  BY <2>4, <2>5
  <1>5. ASSUME NEW w \in Writers, Commit(w) PROVE UNCHANGED Store!vars
    BY <1>5, Committed DEF Store!vars
  <1>6. ASSUME NEW w \in Writers,
               \/ InsertClock(w) \/ InsertFail(w) \/ ConsolidateClock(w) \/ Begin(w)
               \/ BeginFail(w) \/ TierInsert(w) \/ TierDelete(w) \/ Rollback(w)
               \/ PruneClock(w) \/ PruneFail(w) \/ Crash(w)
        PROVE  UNCHANGED Store!vars
    <2>1. UNCHANGED <<now, rows, pruned>>
      BY <1>6 DEF InsertClock, InsertFail, ConsolidateClock, Begin, BeginFail, TierInsert,
                  TierDelete, Rollback, PruneClock, PruneFail, Crash
    <2>2. QED  BY <2>1 DEF Store!vars, Samples
  <1>7. CASE UNCHANGED vars
    BY <1>7 DEF vars, Store!vars, Samples
  <1>8. QED
    BY <1>1, <1>2, <1>3, <1>4, <1>5, <1>6, <1>7 DEF Next, Cycle

(* The whole cycle implements SampleStore: whatever passes, crashes and    *)
(* other processes come between, a reader who counts samples sees each     *)
(* appear once, and go only when its age has passed the retention, less    *)
(* than a bucket early.                                                    *)
THEOREM ImplementsStore ==
    ASSUME Monotonic
    PROVE  Spec => StoreSpec
  <1>1. TypeOK /\ Inv /\ LadderInv /\ [Next]_vars => [Store!Next]_(Store!vars)
    BY StoreStep
  <1>2. QED
    BY <1>1, StoreInit, LadderInvHolds, InvHolds, TypeCorrect, PTL DEF Spec, StoreSpec, Store!Spec
================================================================================
