---------------------------- MODULE WriterConnection ---------------------------
(***************************************************************************)
(* The one connection `serve` writes through, over its whole cycle: the    *)
(* five statements prepared by db_open, the consolidate transaction, and   *)
(* what SQLITE_BUSY leaves behind (src/db.c, src/alerts.c, src/main.c).    *)
(*                                                                         *)
(* The code resets a prepared statement when it is about to use it again,  *)
(* never when it has used it.  To SQLite a statement is active from its    *)
(* first step until it returns SQLITE_DONE or is reset, and                *)
(*   - a read snapshot, once taken, is held while a statement is active;   *)
(*   - a write does not commit while another write statement is active;    *)
(*   - a snapshot older than the file cannot be upgraded to a write.       *)
(* The module follows which statements are active and what that holds.     *)
(* The rows themselves are in Consolidation, the alert log in Alerts;      *)
(* other errors than SQLITE_BUSY end the statement and are modelled there. *)
(***************************************************************************)
EXTENDS Integers, FiniteSets

CONSTANTS
    NumAlerts,   \* cfg->alert_count
    WalLimit,    \* commits until the WAL is due for its automatic checkpoint
    MaxOther     \* bound: transactions other processes make on the file

ASSUME WriterAssumption ==
    /\ NumAlerts \in Nat
    /\ WalLimit \in Nat \ {0}
    /\ MaxOther \in Nat

Writes == {"insert", "prune_metrics", "prune_alerts", "fire"}

Stmts == Writes \cup {"check"}

VARIABLES
    pc,       \* where run_serve is in its cycle
    op,       \* at a statement: "reset", or "step" once it has been reset
    alert,    \* alerts_evaluate's loop index
    active,   \* the prepared statements that are neither done nor reset
    snap,     \* the connection's read snapshot: "none", "fresh" or "stale"
    pending,  \* what the connection has written and not committed
    lost,     \* ghost: what it had written and was rolled back
    wal,      \* commits since the last checkpoint, up to WalLimit
    other,    \* "lock" while another process holds the write lock
    others    \* transactions other processes have made

vars == <<pc, op, alert, active, snap, pending, lost, wal, other, others>>

conn == <<active, snap, pending, lost, wal>>

Init ==
    /\ pc = "sleep"
    /\ op = "reset"
    /\ alert = 1
    /\ active = {}
    /\ snap = "none"
    /\ pending = {}
    /\ lost = {}
    /\ wal = 0
    /\ other = "none"
    /\ others = 0
--------------------------------------------------------------------------------
(* SQLite *)

(* The write lock is held, or can be had: no other process has it, and the *)
(* snapshot the write would start from, if there is one, is the latest.    *)
CanWrite == pending # {} \/ (other = "none" /\ snap # "stale")

(* A transaction that has ended keeps a snapshot for the active statements. *)
Snapshot == IF active = {} THEN "none" ELSE "fresh"

(* The automatic checkpoint of a commit is refused while the connection    *)
(* holds a snapshot.  A commit that changed no page is counted too: that   *)
(* only brings the checkpoint nearer.                                      *)
Committed ==
    /\ pending' = {}
    /\ snap' = Snapshot
    /\ wal' = IF wal < WalLimit THEN wal + 1
              ELSE IF active = {} THEN 0 ELSE wal

RolledBack ==
    /\ lost' = lost \cup pending
    /\ pending' = {}

(* Mutant: the statement is stepped again as the last use left it. *)
Reset_Skipped(stmt) ==
    /\ pc = stmt /\ op = "reset"
    /\ op' = "step"
    /\ UNCHANGED <<pc, alert, conn, other, others>>

(* sqlite3_reset.  It drops the snapshot if no other statement is active;  *)
(* of a write left at SQLITE_BUSY it rolls the transaction back, if that   *)
(* is the only write active.                                               *)
Reset(stmt) ==
    /\ pc = stmt /\ op = "reset"
    /\ op' = "step"
    /\ active' = active \ {stmt}
    /\ snap' = IF active' = {} THEN "none" ELSE snap
    /\ IF stmt \in active \cap Writes /\ active' \cap Writes = {}
       THEN RolledBack
       ELSE UNCHANGED <<pending, lost>>
    /\ UNCHANGED <<pc, alert, wal, other, others>>

(* step_with_retry of a write, to SQLITE_DONE.  It commits unless another  *)
(* write statement is active.                                              *)
Write(stmt, what) ==
    /\ pc = stmt /\ op = "step"
    /\ CanWrite
    /\ IF active \cap Writes = {}
       THEN Committed
       ELSE pending' = pending \cup {what} /\ snap' = "fresh" /\ UNCHANGED wal
    /\ op' = "reset"
    /\ UNCHANGED <<active, lost, other, others>>

(* SQLITE_BUSY on each of its tries: the statement is left active. *)
WriteBusy(stmt) ==
    /\ pc = stmt /\ op = "step"
    /\ ~CanWrite
    /\ active' = active \cup {stmt}
    /\ op' = "reset"
    /\ UNCHANGED <<snap, pending, lost, wal, other, others>>
--------------------------------------------------------------------------------
(* run_serve's cycle.  A metrics_collect that fails leaves it asleep. *)

Sleep == pc' = "sleep" /\ alert' = 1

Wake ==
    /\ pc = "sleep"
    /\ pc' = "insert"
    /\ UNCHANGED <<op, alert, conn, other, others>>

(* Mutant: db_insert opens the transaction that db_consolidate commits. *)
Insert_InTransaction ==
    /\ pc = "insert" /\ op = "step" /\ CanWrite
    /\ pending' = pending \cup {"sample"}
    /\ active' = active \cup {"insert"}
    /\ snap' = "fresh"
    /\ op' = "reset"
    /\ pc' = "consolidate"
    /\ UNCHANGED <<alert, lost, wal, other, others>>

(* db_insert *)
Insert == Write("insert", "sample") /\ pc' = "consolidate" /\ UNCHANGED alert

InsertBusy == WriteBusy("insert") /\ Sleep

(* db_consolidate: BEGIN IMMEDIATE, the tiers, COMMIT. *)
Consolidate ==
    /\ pc = "consolidate" /\ CanWrite
    /\ active \cap Writes = {}
    /\ Committed
    /\ pc' = "prune_metrics"
    /\ UNCHANGED <<op, alert, active, lost, other, others>>

(* COMMIT is refused, a write statement being active: ROLLBACK, of all the *)
(* connection had not committed.                                           *)
ConsolidateRefused ==
    /\ pc = "consolidate" /\ CanWrite
    /\ active \cap Writes # {}
    /\ RolledBack
    /\ snap' = "fresh"
    /\ pc' = "prune_metrics"
    /\ UNCHANGED <<op, alert, active, wal, other, others>>

(* BEGIN IMMEDIATE met SQLITE_BUSY: there is nothing to roll back. *)
ConsolidateBusy ==
    /\ pc = "consolidate" /\ ~CanWrite
    /\ pc' = "prune_metrics"
    /\ UNCHANGED <<op, alert, conn, other, others>>

(* db_prune: a failure of the first DELETE skips the second. *)
PruneMetrics ==
    Write("prune_metrics", "prune") /\ pc' = "prune_alerts" /\ UNCHANGED alert

PruneMetricsBusy ==
    WriteBusy("prune_metrics") /\ pc' = "current" /\ UNCHANGED alert

PruneAlerts == Write("prune_alerts", "prune") /\ pc' = "current" /\ UNCHANGED alert

PruneAlertsBusy ==
    WriteBusy("prune_alerts") /\ pc' = "current" /\ UNCHANGED alert

(* Mutant: the statement is not finalised. *)
Current_LeftOpen ==
    /\ pc = "current"
    /\ active' = active \cup {"check"}
    /\ snap' = IF snap = "none" THEN "fresh" ELSE snap
    /\ pc' = "alerts"
    /\ UNCHANGED <<op, alert, pending, lost, wal, other, others>>

(* db_current: the table holds the row db_insert stored, or an older one.  *)
(* Its statement is finalised, but the snapshot it read stays if another   *)
(* statement is active.                                                    *)
Current ==
    /\ pc = "current"
    /\ snap' = IF snap = "none" THEN Snapshot ELSE snap
    /\ pc' = "alerts"
    /\ UNCHANGED <<op, alert, active, pending, lost, wal, other, others>>

(* alerts_evaluate's loop *)
NextAlert == alert' = alert + 1 /\ pc' = "alerts"

NotBreached ==
    /\ pc = "alerts" /\ alert <= NumAlerts
    /\ NextAlert
    /\ UNCHANGED <<op, conn, other, others>>

Breached ==
    /\ pc = "alerts" /\ alert <= NumAlerts
    /\ pc' = "check"
    /\ UNCHANGED <<op, alert, conn, other, others>>

AlertsDone ==
    /\ pc = "alerts" /\ alert > NumAlerts
    /\ Sleep
    /\ UNCHANGED <<op, conn, other, others>>

(* db_alert_on_cooldown steps to its one row, never to SQLITE_DONE, and so *)
(* leaves its statement active.                                            *)
Check ==
    /\ pc = "check" /\ op = "step"
    /\ op' = "reset"
    /\ active' = active \cup {"check"}
    /\ snap' = IF snap = "none" THEN "fresh" ELSE snap
    /\ NextAlert \/ (pc' = "deliver" /\ UNCHANGED alert)
    /\ UNCHANGED <<pending, lost, wal, other, others>>

Deliver ==
    /\ pc = "deliver"
    /\ NextAlert \/ (pc' = "fire" /\ UNCHANGED alert)
    /\ UNCHANGED <<op, conn, other, others>>

(* Mutant: the firing is written in a transaction nobody commits. *)
LogFire_NoCommit ==
    /\ pc = "fire" /\ op = "step" /\ CanWrite
    /\ pending' = pending \cup {"fire"}
    /\ snap' = "fresh"
    /\ op' = "reset"
    /\ NextAlert
    /\ UNCHANGED <<active, lost, wal, other, others>>

(* db_alert_log_fire *)
LogFire == Write("fire", "fire") /\ NextAlert

LogFireBusy == WriteBusy("fire") /\ NextAlert

Cycle ==
    \/ Wake \/ \E stmt \in Stmts : Reset(stmt)
    \/ Insert \/ InsertBusy
    \/ Consolidate \/ ConsolidateRefused \/ ConsolidateBusy
    \/ PruneMetrics \/ PruneMetricsBusy \/ PruneAlerts \/ PruneAlertsBusy
    \/ Current
    \/ NotBreached \/ Breached \/ AlertsDone
    \/ Check \/ Deliver \/ LogFire \/ LogFireBusy
--------------------------------------------------------------------------------
(* Another process: `minimoni collect`, or an operator with a SQLite shell. *)

OtherBegin ==
    /\ other = "none" /\ pending = {}
    /\ others < MaxOther
    /\ other' = "lock"
    /\ others' = others + 1
    /\ UNCHANGED <<pc, op, alert, conn>>

OtherCommit ==
    /\ other = "lock"
    /\ other' = "none"
    /\ snap' = IF snap = "fresh" THEN "stale" ELSE snap
    /\ UNCHANGED <<pc, op, alert, active, pending, lost, wal, others>>

OtherRollback ==
    /\ other = "lock"
    /\ other' = "none"
    /\ UNCHANGED <<pc, op, alert, conn, others>>

Next == Cycle \/ OtherBegin \/ OtherCommit \/ OtherRollback

Spec == Init /\ [][Next]_vars

(* The daemon's loop goes on, and no other process sits on the write lock. *)
FairSpec == Spec /\ WF_vars(Cycle) /\ WF_vars(OtherCommit \/ OtherRollback)
--------------------------------------------------------------------------------
(* Properties *)

(* "Returns 0 on success" (db.h, db_insert): a sample for which db_insert  *)
(* returned 0 is in the file, and is never rolled back.                    *)
AckedKept == "sample" \notin lost

(* So it is as long as no other process has written to the file, for all   *)
(* that the cooldown check leaves its statement active.                    *)
AckedKeptAlone == others = 0 => AckedKept

(* And until then the daemon sleeps with nothing uncommitted: a first      *)
(* process to write finds the lock free between two cycles.                *)
SleepsUnlocked == others = 0 /\ pc = "sleep" => pending = {}

(* The write lock outlives a statement only on account of a write that was *)
(* left unfinished: whatever SQLITE_BUSY met, the next use of each of the  *)
(* four write statements clears it.                                        *)
HeldForUnfinished == pending # {} => active \cap Writes # {} /\ other = "none"

(* db_insert and db_consolidate recover from SQLITE_BUSY by themselves: if *)
(* samples stop being stored, it is because a prune, a cooldown check or a *)
(* firing was left unfinished for good.                                    *)
InsertRecovers ==
    \/ []<><<Insert /\ pending' = {}>>_vars
    \/ <>[](active \ {"insert"} # {})

(* "Alerts are evaluated after every collect cycle" (README): they are     *)
(* evaluated again and again, whatever went wrong in some cycle.           *)
EvaluatedAgain == []<><<Current>>_vars

(* The same words, for a daemon none of whose other writes is ever left    *)
(* unfinished: what can still keep a snapshot is the cooldown check, which *)
(* is never stepped to its end.                                            *)
EvaluatedUnlessLeft ==
    [](active \cap (Writes \ {"insert"}) = {}) => EvaluatedAgain

(* And for one that never checks a cooldown: what can still keep a         *)
(* snapshot is a prune that SQLITE_BUSY left, with db_current's read after *)
(* it.  The code keeps to neither.                                         *)
EvaluatedUnlessChecked == [](pc # "check") => EvaluatedAgain

(* "the WAL checkpoints about every five hours" (README): again and again  *)
(* the WAL is written back to the database, as long as no cooldown check   *)
(* and no other process is about.                                          *)
WalCheckpointed == [](others = 0 /\ pc # "check") => []<>(wal = 0)
================================================================================
