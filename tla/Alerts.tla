--------------------------------- MODULE Alerts --------------------------------
(***************************************************************************)
(* The alert half of a collect cycle: db_prune's trimming of alert_log,    *)
(* then alerts_evaluate, one [[alert]] block after the other, with its     *)
(* cooldown check, its delivery and its record in alert_log (src/alerts.c, *)
(* src/db.c).  alert_log is in the file, so it outlives the process; what  *)
(* a process knows of a firing under way does not.                         *)
(*                                                                         *)
(* A process is `serve`, or one run of `collect`.  The metrics, operators  *)
(* and thresholds are left out: at each evaluation an alert is breached or *)
(* is not.  The wall clock moves between any two steps, for a delivery     *)
(* takes its time.                                                         *)
(***************************************************************************)
EXTENDS Integers

CONSTANTS
    Procs,      \* the minimoni processes that evaluate alerts
    NumAlerts,  \* cfg->alert_count
    Name,       \* the name of each alert, which is all alert_log records
    Cooldown,   \* cooldown_seconds of each alert
    Webhooks,   \* the alerts with a webhook
    Commands,   \* the alerts with a command
    Retention,  \* seconds of alert_log that db_prune keeps
    MaxNow      \* bound on the wall clock

AlertIds == 1..NumAlerts

ASSUME AlertsAssumption ==
    /\ NumAlerts \in Nat
    /\ Cooldown \in [AlertIds -> Nat]
    /\ Webhooks \cup Commands = AlertIds
    /\ Retention \in Nat
    /\ MaxNow \in Nat

VARIABLES
    now,        \* the wall clock
    log,        \* alert_log, its rows as [name, at]
    pc,         \* where each process is
    i,          \* its loop index
    delivered,  \* its local of that name
    fired       \* ghost: the firings recorded, by alert

vars == <<now, log, pc, i, delivered, fired>>

Init ==
    /\ now = 0
    /\ log = {}
    /\ pc = [p \in Procs |-> "idle"]
    /\ i = [p \in Procs |-> 1]
    /\ delivered = [p \in Procs |-> 0]
    /\ fired = {}

Goto(p, from, to) == pc[p] = from /\ pc' = [pc EXCEPT ![p] = to]

Tick ==
    /\ now < MaxNow
    /\ now' = now + 1
    /\ UNCHANGED <<log, pc, i, delivered, fired>>
--------------------------------------------------------------------------------
(* Mutant: the comparison of the cooldown check, turned around. *)
Outdated_Inverted == {e \in log : e.at > now - Retention}

(* DELETE FROM alert_log WHERE fired_at < cutoff *)
Outdated == {e \in log : e.at < now - Retention}

(* db_prune, after the sample is stored. *)
Prune(p) ==
    /\ Goto(p, "idle", "eval")
    /\ log' = log \ Outdated
    /\ i' = [i EXCEPT ![p] = 1]
    /\ UNCHANGED <<now, delivered, fired>>

(* The pruning of metrics failed, and db_prune returned, or this one did.  *)
PruneFail(p) ==
    /\ Goto(p, "idle", "eval")
    /\ i' = [i EXCEPT ![p] = 1]
    /\ UNCHANGED <<now, log, delivered, fired>>

(* Mutant: any row of the log counts. *)
OnCooldown_AnyName(a) == \E e \in log : e.at > now - Cooldown[a]

(* db_alert_on_cooldown: has the name a row newer than the cutoff? *)
OnCooldown(a) == \E e \in log : e.name = Name[a] /\ e.at > now - Cooldown[a]

(* `continue` *)
NextAlert(p, from) ==
    /\ Goto(p, from, "eval")
    /\ i' = [i EXCEPT ![p] = @ + 1]

(* The metric has no valid value, the threshold is not breached, or the    *)
(* cooldown could not be read.                                             *)
Skip(p) ==
    /\ i[p] <= NumAlerts
    /\ NextAlert(p, "eval")
    /\ UNCHANGED <<now, log, delivered, fired>>

Suppress(p) ==
    /\ i[p] <= NumAlerts
    /\ OnCooldown(i[p])
    /\ NextAlert(p, "eval")
    /\ UNCHANGED <<now, log, delivered, fired>>

Fire(p) ==
    /\ i[p] <= NumAlerts
    /\ ~OnCooldown(i[p])
    /\ Goto(p, "eval", "webhook")
    /\ delivered' = [delivered EXCEPT ![p] = 0]
    /\ UNCHANGED <<now, log, i, fired>>

(* post_webhook, when there is one: 1 if the endpoint answered 2xx. *)
Webhook(p) ==
    /\ Goto(p, "webhook", "command")
    /\ \E ok \in IF i[p] \in Webhooks THEN {0, 1} ELSE {0} :
         delivered' = [delivered EXCEPT ![p] = ok]
    /\ UNCHANGED <<now, log, i, fired>>

(* run_command, when there is one: delivered |= its exit status is 0. *)
Command(p) ==
    /\ Goto(p, "command", "settle")
    /\ \E ok \in IF i[p] \in Commands THEN {0, 1} ELSE {0} :
         delivered' = [delivered EXCEPT ![p] = IF ok = 1 THEN 1 ELSE @]
    /\ UNCHANGED <<now, log, i, fired>>

Undelivered(p) ==
    /\ delivered[p] = 0
    /\ NextAlert(p, "settle")
    /\ UNCHANGED <<now, log, delivered, fired>>

(* db_alert_log_fire *)
LogFire(p) ==
    /\ delivered[p] = 1
    /\ NextAlert(p, "settle")
    /\ log' = log \cup {[name |-> Name[i[p]], at |-> now]}
    /\ fired' = fired \cup {[alert |-> i[p], at |-> now]}
    /\ UNCHANGED <<now, delivered>>

LogFireFail(p) ==
    /\ delivered[p] = 1
    /\ NextAlert(p, "settle")
    /\ UNCHANGED <<now, log, delivered, fired>>

Done(p) ==
    /\ i[p] > NumAlerts
    /\ Goto(p, "eval", "idle")
    /\ UNCHANGED <<now, log, i, delivered, fired>>

(* The process dies, in the middle of a delivery or before it is recorded, *)
(* and is started again.                                                   *)
Crash(p) ==
    /\ pc[p] # "idle"
    /\ pc' = [pc EXCEPT ![p] = "idle"]
    /\ UNCHANGED <<now, log, i, delivered, fired>>

Evaluate(p) ==
    \/ Prune(p) \/ PruneFail(p) \/ Skip(p) \/ Suppress(p) \/ Fire(p)
    \/ Webhook(p) \/ Command(p) \/ Undelivered(p) \/ LogFire(p) \/ LogFireFail(p)
    \/ Done(p)

Next == Tick \/ \E p \in Procs : Evaluate(p) \/ Crash(p)

Spec == Init /\ [][Next]_vars
--------------------------------------------------------------------------------
(* Properties *)

(* "the alert will not fire again until the cooldown period has elapsed"   *)
(* (README): no process delivers an alert while a recorded firing of it is *)
(* younger than its cooldown, across restarts and prunes of the log.       *)
CooldownHonoured ==
    \A p \in Procs, f \in fired :
        pc[p] \in {"webhook", "command"} /\ f.alert = i[p]
           => f.at + Cooldown[f.alert] <= now

(* "Each [[alert]] block is independent" and the cooldown "starts only     *)
(* when at least one of the alert's actions succeeds" (README): an alert   *)
(* is held back only by a delivered firing of its own.                     *)
NotSilenced ==
    [][\A p \in Procs : Suppress(p) =>
          \E f \in fired : f.alert = i[p] /\ f.at + Cooldown[i[p]] > now]_vars
================================================================================
