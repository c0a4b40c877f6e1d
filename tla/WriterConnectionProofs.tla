------------------------- MODULE WriterConnectionProofs ------------------------
(***************************************************************************)
(* Proofs about WriterConnection, for any number of alerts and any length  *)
(* of the WAL.                                                             *)
(***************************************************************************)
EXTENDS WriterConnection, TLAPS

(* While the daemon is the only process writing to the file, SQLITE_BUSY   *)
(* cannot happen: so no write is left unfinished, and every one commits.   *)
(* An unfinished cooldown check is no harm to that, its snapshot being the *)
(* latest.                                                                 *)
Alone ==
    /\ other = "none"
    /\ active \subseteq {"check"}
    /\ snap \in {"none", "fresh"}
    /\ pending = {}
    /\ lost = {}

AloneInv == others \in Nat /\ (others = 0 => Alone)

LEMMA AloneInit == Init => AloneInv
  BY DEF Init, AloneInv, Alone

LEMMA AloneStep == AloneInv /\ [Next]_vars => AloneInv'
<1> SUFFICES ASSUME AloneInv, [Next]_vars PROVE AloneInv'
  OBVIOUS
<1> USE DEF AloneInv, Alone, conn, Writes
<1>1. ASSUME NEW stmt \in Stmts, Reset(stmt) PROVE AloneInv'
  BY <1>1 DEF Reset, RolledBack
<1>2. ASSUME NEW stmt, NEW what, Write(stmt, what) PROVE AloneInv'
  BY <1>2 DEF Write, Committed, Snapshot
<1>3. ASSUME NEW stmt, WriteBusy(stmt) PROVE AloneInv'
  BY <1>3 DEF WriteBusy, CanWrite
<1>4. CASE Consolidate
  BY <1>4 DEF Consolidate, Committed, Snapshot
<1>5. CASE ConsolidateRefused \/ ConsolidateBusy
  BY <1>5 DEF ConsolidateRefused, ConsolidateBusy, CanWrite
<1>6. CASE Current
  BY <1>6 DEF Current, Snapshot
<1>7. CASE Check
  BY <1>7 DEF Check
<1>8. CASE Wake \/ NotBreached \/ Breached \/ AlertsDone \/ Deliver
  BY <1>8 DEF Wake, NotBreached, Breached, AlertsDone, Deliver
<1>9. CASE OtherBegin \/ OtherCommit \/ OtherRollback
  BY <1>9 DEF OtherBegin, OtherCommit, OtherRollback
<1>10. CASE UNCHANGED vars
  BY <1>10 DEF vars
<1> QED
  BY <1>1, <1>2, <1>3, <1>4, <1>5, <1>6, <1>7, <1>8, <1>9, <1>10
  DEF Next, Cycle, Insert, InsertBusy, PruneMetrics, PruneMetricsBusy, PruneAlerts,
      PruneAlertsBusy, LogFire, LogFireBusy

(* As long as no other process writes to the file, a sample for which      *)
(* db_insert returned 0 is never rolled back, although the cooldown check  *)
(* leaves its statement unfinished.                                        *)
THEOREM KeptAlone == Spec => []AckedKeptAlone
<1>1. AloneInv => AckedKeptAlone
  BY DEF AloneInv, Alone, AckedKeptAlone, AckedKept
<1> QED
  BY AloneInit, AloneStep, <1>1, PTL DEF Spec

(* ...and the daemon never sleeps on the write lock. *)
THEOREM UnlockedAlone == Spec => []SleepsUnlocked
<1>1. AloneInv => SleepsUnlocked
  BY DEF AloneInv, Alone, SleepsUnlocked
<1> QED
  BY AloneInit, AloneStep, <1>1, PTL DEF Spec
--------------------------------------------------------------------------------
(* With other processes writing, an uncommitted write is always there for  *)
(* an unfinished one, and only a holder of the write lock has one.         *)
LEMMA HeldStep == HeldForUnfinished /\ [Next]_vars => HeldForUnfinished'
<1> SUFFICES ASSUME HeldForUnfinished, [Next]_vars PROVE HeldForUnfinished'
  OBVIOUS
<1> USE DEF HeldForUnfinished, conn
<1>1. ASSUME NEW stmt \in Stmts, Reset(stmt) PROVE HeldForUnfinished'
  BY <1>1 DEF Reset, RolledBack
<1>2. ASSUME NEW stmt, NEW what, Write(stmt, what) PROVE HeldForUnfinished'
  BY <1>2 DEF Write, Committed, CanWrite
<1>3. ASSUME NEW stmt, WriteBusy(stmt) PROVE HeldForUnfinished'
  BY <1>3 DEF WriteBusy, CanWrite
<1>4. CASE Consolidate \/ ConsolidateRefused \/ ConsolidateBusy
  BY <1>4 DEF Consolidate, ConsolidateRefused, ConsolidateBusy, Committed, RolledBack
<1>5. CASE Current \/ Check
  BY <1>5 DEF Current, Check
<1>6. CASE Wake \/ NotBreached \/ Breached \/ AlertsDone \/ Deliver
  BY <1>6 DEF Wake, NotBreached, Breached, AlertsDone, Deliver
<1>7. CASE OtherBegin \/ OtherCommit \/ OtherRollback
  BY <1>7 DEF OtherBegin, OtherCommit, OtherRollback
<1>8. CASE UNCHANGED vars
  BY <1>8 DEF vars
<1> QED
  BY <1>1, <1>2, <1>3, <1>4, <1>5, <1>6, <1>7, <1>8
  DEF Next, Cycle, Insert, InsertBusy, PruneMetrics, PruneMetricsBusy, PruneAlerts,
      PruneAlertsBusy, LogFire, LogFireBusy

(* However many transactions other processes make, and whatever they       *)
(* interrupt, the connection keeps the write lock after a statement only   *)
(* on account of a write that SQLITE_BUSY left unfinished.                 *)
THEOREM LockExplained == Spec => []HeldForUnfinished
<1>1. Init => HeldForUnfinished
  BY DEF Init, HeldForUnfinished
<1> QED
  BY <1>1, HeldStep, PTL DEF Spec
================================================================================
