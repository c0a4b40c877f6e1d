----------------------------- MODULE Consolidation -----------------------------
(***************************************************************************)
(* The metrics table and the storing half of a collect cycle, as `serve`   *)
(* and `collect` run it: db_insert, then db_consolidate, then db_prune     *)
(* (src/main.c, src/db.c).  A writer is one minimoni process; the daemon   *)
(* and a timer-driven `minimoni collect` may share the file, and SQLite's  *)
(* write lock is all that orders them.                                     *)
(*                                                                         *)
(* A row is known by its timestamp, its bucket_sec, and the set of samples *)
(* its columns average.  That set is what the properties are about; the    *)
(* twenty metric columns are not.  A NULL bucket_sec, which a migrated v0  *)
(* row carries, is NullBucket: both sides of the tier predicate treat it   *)
(* as finer than every tier.                                               *)
(*                                                                         *)
(* A statement here either runs to its end and commits, or fails and       *)
(* leaves nothing: true of every error but the SQLITE_BUSY of a prepared   *)
(* statement, whose aftermath is the subject of WriterConnection.          *)
(***************************************************************************)
EXTENDS Integers, FiniteSets

CONSTANTS
    Writers,       \* the minimoni processes writing to the file
    NoWriter,      \* the write lock's owner when it is free
    NumTiers,      \* NUM_TIER_TRANSITIONS
    Tiers,         \* TIER_TRANSITIONS, a [bucket, threshold] for each tier
    Intervals,     \* the collect intervals the processes are configured with
    Retention,     \* seconds of history db_prune keeps
    Start,         \* the wall clock when the model starts
    LegacyStamps,  \* timestamps of the rows a migrated v0 database brings
    MaxStall,      \* bound: seconds from reading the clock to storing the row
    MaxStepBack,   \* bound: seconds the wall clock may be set back at once
    MaxNow,        \* bound on the wall clock
    MaxSamples     \* bound on the samples taken

NullBucket == 0

ASSUME ConsolidationAssumption ==
    /\ NoWriter \notin Writers
    /\ NumTiers \in Nat
    /\ Tiers \in [1..NumTiers -> [bucket : Nat \ {0}, threshold : Nat]]
    /\ Intervals \subseteq Nat \ {0}
    /\ Retention \in Nat
    /\ Start \in Nat
    /\ LegacyStamps \subseteq 0..Start
    /\ MaxStall \in Nat
    /\ MaxStepBack \in Nat
    /\ MaxNow \in Nat
    /\ MaxSamples \in Nat

(* The shape of TIER_TRANSITIONS: each bucket is a multiple of the finer   *)
(* ones, and coarser buckets wait longer; and no row is stored so late     *)
(* that the finest tier could have closed its bucket.                      *)
ASSUME LadderAssumption ==
    /\ \A i, j \in 1..NumTiers : i < j =>
         /\ \E k \in 2..Tiers[j].bucket : Tiers[j].bucket = k * Tiers[i].bucket
         /\ Tiers[i].threshold <= Tiers[j].threshold
    /\ \A i \in 1..NumTiers : MaxStall <= Tiers[i].threshold

VARIABLES
    now,     \* the wall clock, time(NULL)
    rows,    \* the committed table, which every other connection reads
    lock,    \* the process holding the write lock in a consolidate transaction
    work,    \* the table as that transaction sees it
    tier,    \* the tier transition it is at
    verb,    \* which of that tier's two statements is next
    pc,      \* where each process is in its cycle
    at,      \* the instant each process last read, for its row or its cutoffs
    count,   \* samples taken so far
    stored,  \* ghost: every sample ever stored
    pruned   \* ghost: every sample a prune has removed

vars == <<now, rows, lock, work, tier, verb, pc, at, count, stored, pruned>>

tx == <<lock, work, tier, verb>>

Sample == [n : Nat, at : Int]

Row == [ts : Int, bucket : Nat, kind : {"raw", "merged"}, samples : SUBSET Sample]

Steps == {"idle", "insert", "clock", "begin", "tx", "cutoff", "prune"}

(* Every sample some row of table T stands for. *)
Samples(T) == UNION {r.samples : r \in T}

(* No two rows of table T stand for the same sample. *)
Disjoint(T) == \A r, q \in T : r # q => r.samples \cap q.samples = {}
--------------------------------------------------------------------------------
(* The tier predicate.  (strftime('%s', ts) / bs) * bs is the start of the *)
(* bucket of size bs that ts falls in.                                     *)

BucketStart(ts, bs) == (ts \div bs) * bs

(* Mutant: the row-level predicate the comment on TIER_TRANSITIONS rejects. *)
Qualifies_RowLevel(r, i, t) ==
    /\ r.ts <= t - Tiers[i].threshold
    /\ r.bucket < Tiers[i].bucket

(* Mutant: the bucket's start, not its end, is compared with the cutoff. *)
Qualifies_BucketStart(r, i, t) ==
    /\ BucketStart(r.ts, Tiers[i].bucket) <= t - Tiers[i].threshold
    /\ r.bucket < Tiers[i].bucket

(* WHERE bucket_end <= now - threshold AND (bucket_sec IS NULL OR < bs)    *)
Qualifies(r, i, t) ==
    LET bs == Tiers[i].bucket
    IN  /\ BucketStart(r.ts, bs) + bs <= t - Tiers[i].threshold
        /\ r.bucket < bs

Aged(T, i, t) == {r \in T : Qualifies(r, i, t)}

(* The row GROUP BY makes of the qualifying rows of the bucket starting at *)
(* b: stamped at the bucket start, carrying the tier's size.               *)
Merged(T, i, t, b) ==
    [ts |-> b, bucket |-> Tiers[i].bucket, kind |-> "merged",
     samples |-> Samples({r \in Aged(T, i, t) :
                            BucketStart(r.ts, Tiers[i].bucket) = b})]

Inserted(T, i, t) ==
    {Merged(T, i, t, BucketStart(r.ts, Tiers[i].bucket)) : r \in Aged(T, i, t)}
--------------------------------------------------------------------------------
RawRow(s, interval) ==
    [ts |-> s.at, bucket |-> interval, kind |-> "raw", samples |-> {s}]

Init ==
    /\ now = Start
    /\ rows = {RawRow([n |-> 0, at |-> t], NullBucket) : t \in LegacyStamps}
    /\ lock = NoWriter
    /\ work = {}
    /\ tier = 1
    /\ verb = "insert"
    /\ pc = [w \in Writers |-> "idle"]
    /\ at = [w \in Writers |-> Start]
    /\ count = 0
    /\ stored = Samples(rows)
    /\ pruned = {}

Goto(w, from, to) == pc[w] = from /\ pc' = [pc EXCEPT ![w] = to]

(* The wall clock advances.  A process that has read it for its row stores *)
(* that row, or gives up, within MaxStall: step_with_retry makes three     *)
(* tries a tenth of a second apart.                                        *)
Tick ==
    /\ now < MaxNow
    /\ \A w \in Writers : pc[w] = "insert" => now + 1 - at[w] <= MaxStall
    /\ now' = now + 1
    /\ UNCHANGED <<rows, tx, pc, at, count, stored, pruned>>

(* The wall clock is set back, by NTP or by hand. *)
StepBack ==
    /\ \E d \in 1..MaxStepBack : now - d >= Start /\ now' = now - d
    /\ UNCHANGED <<rows, tx, pc, at, count, stored, pruned>>

(* db_insert: the timestamp of the row is read... *)
InsertClock(w) ==
    /\ count < MaxSamples
    /\ Goto(w, "idle", "insert")
    /\ at' = [at EXCEPT ![w] = now]
    /\ UNCHANGED <<now, rows, tx, count, stored, pruned>>

(* ...and the row stored, once no other process holds the write lock.  A   *)
(* raw row's bucket_sec is the interval its process was started with, and  *)
(* a restart may bring another one.                                        *)
Insert(w) ==
    /\ lock = NoWriter
    /\ Goto(w, "insert", "clock")
    /\ \E i \in Intervals :
         LET s == [n |-> count + 1, at |-> at[w]]
         IN  /\ rows' = rows \cup {RawRow(s, i)}
             /\ stored' = stored \cup {s}
    /\ count' = count + 1
    /\ UNCHANGED <<now, tx, at, pruned>>

(* Three tries met SQLITE_BUSY, or the statement failed: the cycle is over *)
(* and the sample is not stored.                                           *)
InsertFail(w) ==
    /\ Goto(w, "insert", "idle")
    /\ UNCHANGED <<now, rows, tx, at, count, stored, pruned>>

(* db_consolidate: one time(NULL) for every statement of the transaction.  *)
ConsolidateClock(w) ==
    /\ Goto(w, "clock", "begin")
    /\ at' = [at EXCEPT ![w] = now]
    /\ UNCHANGED <<now, rows, tx, count, stored, pruned>>

(* Mutant: the first tier transition is skipped. *)
Begin_SkipsFirst(w) ==
    /\ lock = NoWriter
    /\ Goto(w, "begin", "tx")
    /\ lock' = w
    /\ work' = rows
    /\ tier' = 2
    /\ verb' = "insert"
    /\ UNCHANGED <<now, rows, at, count, stored, pruned>>

(* BEGIN IMMEDIATE takes the write lock. *)
Begin(w) ==
    /\ lock = NoWriter
    /\ Goto(w, "begin", "tx")
    /\ lock' = w
    /\ work' = rows
    /\ tier' = 1
    /\ verb' = "insert"
    /\ UNCHANGED <<now, rows, at, count, stored, pruned>>

(* INSERT INTO metrics ... SELECT AVG ... GROUP BY bucket *)
TierInsert(w) ==
    /\ pc[w] = "tx" /\ lock = w
    /\ tier <= NumTiers /\ verb = "insert"
    /\ work' = work \cup Inserted(work, tier, at[w])
    /\ verb' = "delete"
    /\ UNCHANGED <<now, rows, lock, tier, pc, at, count, stored, pruned>>

(* Mutant: the DELETE reads the clock for itself, as SQLite's 'now' would. *)
TierDelete_OwnClock(w) ==
    /\ pc[w] = "tx" /\ lock = w
    /\ tier <= NumTiers /\ verb = "delete"
    /\ work' = work \ Aged(work, tier, now)
    /\ verb' = "insert"
    /\ tier' = tier + 1
    /\ UNCHANGED <<now, rows, lock, pc, at, count, stored, pruned>>

(* DELETE FROM metrics, under the same condition *)
TierDelete(w) ==
    /\ pc[w] = "tx" /\ lock = w
    /\ tier <= NumTiers /\ verb = "delete"
    /\ work' = work \ Aged(work, tier, at[w])
    /\ verb' = "insert"
    /\ tier' = tier + 1
    /\ UNCHANGED <<now, rows, lock, pc, at, count, stored, pruned>>

(* The transaction's statements are over: drop its copy of the table. *)
EndTx ==
    /\ lock' = NoWriter
    /\ work' = {}
    /\ tier' = 1
    /\ verb' = "insert"

Commit(w) ==
    /\ lock = w
    /\ tier = NumTiers + 1
    /\ Goto(w, "tx", "cutoff")
    /\ rows' = work
    /\ EndTx
    /\ UNCHANGED <<now, at, count, stored, pruned>>

(* BEGIN IMMEDIATE met SQLITE_BUSY, or failed: there is nothing to undo,   *)
(* and the cycle goes on to the prune.                                     *)
BeginFail(w) ==
    /\ Goto(w, "begin", "cutoff")
    /\ UNCHANGED <<now, rows, tx, at, count, stored, pruned>>

(* Mutant: the statements ran outside a transaction, so what was done of   *)
(* them stays.                                                             *)
Rollback_KeepsWork(w) ==
    /\ lock = w
    /\ Goto(w, "tx", "cutoff")
    /\ rows' = work
    /\ EndTx
    /\ UNCHANGED <<now, at, count, stored, pruned>>

(* A statement of the transaction, or its COMMIT, failed: ROLLBACK. *)
Rollback(w) ==
    /\ lock = w
    /\ Goto(w, "tx", "cutoff")
    /\ EndTx
    /\ UNCHANGED <<now, rows, at, count, stored, pruned>>

(* db_prune: iso_cutoff reads the clock again... *)
PruneClock(w) ==
    /\ Goto(w, "cutoff", "prune")
    /\ at' = [at EXCEPT ![w] = now]
    /\ UNCHANGED <<now, rows, tx, count, stored, pruned>>

(* Mutant: the cutoff is added to the clock. *)
Expired_Future(w) == {r \in rows : r.ts < at[w] + Retention}

(* ...DELETE FROM metrics WHERE timestamp < cutoff. *)
Expired(w) == {r \in rows : r.ts < at[w] - Retention}

Prune(w) ==
    /\ lock = NoWriter
    /\ Goto(w, "prune", "idle")
    /\ rows' = rows \ Expired(w)
    /\ pruned' = pruned \cup Samples(Expired(w))
    /\ UNCHANGED <<now, tx, at, count, stored>>

(* One of the two DELETEs failed; db_prune returned and the cycle goes on. *)
PruneFail(w) ==
    /\ Goto(w, "prune", "idle")
    /\ UNCHANGED <<now, rows, tx, at, count, stored, pruned>>

(* The process dies and is started again.  SQLite drops the transaction of *)
(* a dead connection.                                                      *)
Crash(w) ==
    /\ pc[w] # "idle"
    /\ pc' = [pc EXCEPT ![w] = "idle"]
    /\ IF lock = w THEN EndTx ELSE UNCHANGED tx
    /\ UNCHANGED <<now, rows, at, count, stored, pruned>>

Cycle(w) ==
    \/ InsertClock(w) \/ Insert(w) \/ InsertFail(w)
    \/ ConsolidateClock(w) \/ Begin(w) \/ BeginFail(w)
    \/ TierInsert(w) \/ TierDelete(w) \/ Commit(w) \/ Rollback(w)
    \/ PruneClock(w) \/ Prune(w) \/ PruneFail(w)

Next ==
    \/ Tick
    \/ StepBack
    \/ \E w \in Writers : Cycle(w) \/ Crash(w)

Spec == Init /\ [][Next]_vars
--------------------------------------------------------------------------------
(* Properties *)

TypeOK ==
    /\ now \in Nat
    /\ rows \in SUBSET Row
    /\ lock \in Writers \cup {NoWriter}
    /\ work \in SUBSET Row
    /\ tier \in 1..(NumTiers + 1)
    /\ verb \in {"insert", "delete"}
    /\ pc \in [Writers -> Steps]
    /\ at \in [Writers -> Nat]
    /\ count \in Nat
    /\ stored \in SUBSET Sample
    /\ pruned \in SUBSET Sample

(* Consolidation loses nothing: every sample stored is still averaged into *)
(* some committed row, unless a prune removed it.  What build_consolidate_ *)
(* sql guards against by giving INSERT and DELETE one and the same `now`,  *)
(* and db_consolidate by its transaction.                                  *)
NoSampleLost == stored = Samples(rows) \cup pruned

(* No sample weighs twice: two committed rows never average the same       *)
(* sample, so no reader ever sees a bucket next to the rows it was made    *)
(* from.                                                                   *)
NoDoubleCount == Disjoint(rows)

(* A tier's bucket holds one consolidated row, whatever the collect        *)
(* intervals and however often the passes run: the promise of the bucket-  *)
(* end predicate (the comment on TIER_TRANSITIONS).                        *)
OneRowPerBucket ==
    \A r, q \in rows :
        /\ r.kind = "merged" /\ q.kind = "merged"
        /\ r.bucket = q.bucket /\ r.ts = q.ts
        => r = q

(* Fresh history keeps its resolution: a consolidated row's whole bucket   *)
(* is older than its tier's threshold, and no committed row averages a     *)
(* sample from outside the bucket it is stamped with.                      *)
FreshNeverCoarse ==
    \A r \in rows : r.kind = "merged" =>
        \E i \in 1..NumTiers :
            /\ r.bucket = Tiers[i].bucket
            /\ r.ts + r.bucket <= now - Tiers[i].threshold
            /\ \A s \in r.samples : r.ts <= s.at /\ s.at < r.ts + r.bucket

(* One pass leaves nothing behind: whatever had aged past a threshold when *)
(* a pass read the clock is in that tier, or a coarser one, when the pass  *)
(* commits, however many tiers it had to cross.                            *)
PassComplete ==
    [][\A w \in Writers : Commit(w) =>
          \A i \in 1..NumTiers : Aged(rows', i, at[w]) = {}]_vars

(* The table implements SampleStore: a consolidate pass, whole, failed or  *)
(* cut short by a crash, is invisible to a reader who counts samples, and  *)
(* a sample is pruned early by less than the width of a bucket.            *)
Store == INSTANCE SampleStore
            WITH clock <- now, kept <- Samples(rows), gone <- pruned,
                 Blur <- IF NumTiers = 0 THEN 1 ELSE Tiers[NumTiers].bucket

StoreSpec == Store!Spec
================================================================================
