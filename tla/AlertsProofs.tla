------------------------------ MODULE AlertsProofs -----------------------------
(***************************************************************************)
(* Proofs about Alerts, for any alerts, names, cooldowns and retention.    *)
(* What is asked of the installation is a hypothesis of each theorem, for  *)
(* the program does not ask it: one process evaluates the alerts, and no   *)
(* cooldown is longer than the retention.                                  *)
(***************************************************************************)
EXTENDS Alerts, TLAPS

OneEvaluator == \A p, q \in Procs : p = q

LogOutlivesCooldowns == \A a \in AlertIds : Cooldown[a] <= Retention

NamesDiffer == \A a, b \in AlertIds : Name[a] = Name[b] => a = b

Names == {Name[a] : a \in AlertIds}

(* The type of the variables, the bound on the clock left out. *)
Types ==
    /\ now \in Nat
    /\ log \in SUBSET [name : Names, at : Nat]
    /\ pc \in [Procs -> {"idle", "eval", "webhook", "command", "settle"}]
    /\ i \in [Procs -> Nat \ {0}]
    /\ delivered \in [Procs -> {0, 1}]
    /\ fired \in SUBSET [alert : AlertIds, at : Nat]

(* A process past its cooldown check is at one of the alerts. *)
AtAnAlert ==
    \A p \in Procs : pc[p] \in {"webhook", "command", "settle"} => i[p] \in AlertIds

TypeInv == Types /\ AtAnAlert

LEMMA TypeInit == Init => TypeInv
  BY AlertsAssumption DEF Init, TypeInv, Types, AtAnAlert

LEMMA TypeStep == TypeInv /\ [Next]_vars => TypeInv'
<1> SUFFICES ASSUME TypeInv, [Next]_vars PROVE TypeInv'
  OBVIOUS
<1> USE AlertsAssumption DEF TypeInv, Types, AtAnAlert, Goto, NextAlert, AlertIds
<1>1. CASE Tick
  BY <1>1 DEF Tick
<1>2. ASSUME NEW p \in Procs, Prune(p) PROVE TypeInv'
  BY <1>2 DEF Prune, Outdated
<1>3. ASSUME NEW p \in Procs, PruneFail(p) PROVE TypeInv'
  BY <1>3 DEF PruneFail
<1>4. ASSUME NEW p \in Procs, Skip(p) PROVE TypeInv'
  BY <1>4 DEF Skip
<1>5. ASSUME NEW p \in Procs, Suppress(p) PROVE TypeInv'
  BY <1>5 DEF Suppress
<1>6. ASSUME NEW p \in Procs, Fire(p) PROVE TypeInv'
  BY <1>6 DEF Fire
<1>7. ASSUME NEW p \in Procs, Webhook(p) PROVE TypeInv'
  <2>1. PICK ok \in {0, 1} : delivered' = [delivered EXCEPT ![p] = ok]
    BY <1>7 DEF Webhook
  <2> QED
    BY <1>7, <2>1 DEF Webhook
<1>8. ASSUME NEW p \in Procs, Command(p) PROVE TypeInv'
  BY <1>8 DEF Command
<1>9. ASSUME NEW p \in Procs, Undelivered(p) PROVE TypeInv'
  BY <1>9 DEF Undelivered
<1>10. ASSUME NEW p \in Procs, LogFire(p) PROVE TypeInv'
  BY <1>10 DEF LogFire, Names
<1>11. ASSUME NEW p \in Procs, LogFireFail(p) PROVE TypeInv'
  BY <1>11 DEF LogFireFail
<1>12. ASSUME NEW p \in Procs, Done(p) PROVE TypeInv'
  BY <1>12 DEF Done
<1>13. ASSUME NEW p \in Procs, Crash(p) PROVE TypeInv'
  BY <1>13 DEF Crash
<1>14. CASE UNCHANGED vars
  BY <1>14 DEF vars
<1> QED
  BY <1>1, <1>2, <1>3, <1>4, <1>5, <1>6, <1>7, <1>8, <1>9, <1>10, <1>11, <1>12,
     <1>13, <1>14 DEF Next, Evaluate
--------------------------------------------------------------------------------
(* alert_log is as the cooldown check needs it: every recorded firing      *)
(* whose cooldown is running is still there.                               *)
RunningLogged ==
    \A f \in fired : f.at + Cooldown[f.alert] > now =>
        [name |-> Name[f.alert], at |-> f.at] \in log

(* The inductive invariant of CooldownHonoured.  The property says nothing *)
(* of a process that has yet to look; that its look will tell is the first *)
(* conjunct, RunningLogged.  The second is the property, kept until the    *)
(* firing is recorded.                                                     *)
FiringDue ==
    \A p \in Procs, f \in fired :
        pc[p] \in {"webhook", "command", "settle"} /\ f.alert = i[p]
           => f.at + Cooldown[f.alert] <= now

CooldownInv == TypeInv /\ RunningLogged /\ FiringDue

(* Every row of alert_log is there for a delivered firing of an alert of   *)
(* that name.                                                              *)
LogExplained ==
    \A e \in log : \E f \in fired : Name[f.alert] = e.name /\ f.at = e.at

LEMMA CooldownStep ==
    ASSUME OneEvaluator, LogOutlivesCooldowns
    PROVE  CooldownInv /\ [Next]_vars => CooldownInv'
<1> SUFFICES ASSUME CooldownInv, [Next]_vars PROVE RunningLogged' /\ FiringDue'
  BY TypeStep DEF CooldownInv
<1> USE AlertsAssumption DEF CooldownInv, TypeInv, Types, RunningLogged, FiringDue, Goto,
        NextAlert
<1>1. CASE Tick
  BY <1>1 DEF Tick
<1>2. ASSUME NEW p \in Procs, Prune(p) PROVE RunningLogged' /\ FiringDue'
  <2>1. FiringDue'
    BY <1>2 DEF Prune
  <2>2. RunningLogged'
    BY <1>2, LogOutlivesCooldowns DEF Prune, Outdated, LogOutlivesCooldowns
  <2> QED
    BY <2>1, <2>2
<1>3. ASSUME NEW p \in Procs, PruneFail(p) PROVE RunningLogged' /\ FiringDue'
  BY <1>3 DEF PruneFail
<1>4. ASSUME NEW p \in Procs, Skip(p) PROVE RunningLogged' /\ FiringDue'
  BY <1>4 DEF Skip
<1>5. ASSUME NEW p \in Procs, Suppress(p) PROVE RunningLogged' /\ FiringDue'
  BY <1>5 DEF Suppress
<1>6. ASSUME NEW p \in Procs, Fire(p) PROVE RunningLogged' /\ FiringDue'
  <2>1. ASSUME NEW f \in fired, f.alert = i[p] PROVE f.at + Cooldown[f.alert] <= now
    <3> DEFINE e == [name |-> Name[f.alert], at |-> f.at]
    <3>1. f.at \in Nat /\ f.alert \in AlertIds /\ Cooldown[f.alert] \in Nat /\ now \in Nat
      OBVIOUS
    <3>2. e \in log => ~(e.at > now - Cooldown[f.alert])
      BY <1>6, <2>1 DEF Fire, OnCooldown
    <3>3. e.at = f.at
      OBVIOUS
    <3>4. f.at + Cooldown[f.alert] > now => e \in log
      OBVIOUS
    <3> HIDE DEF e
    <3> QED
      BY <3>1, <3>2, <3>3, <3>4
  <2> QED
    BY <1>6, <2>1 DEF Fire
<1>7. ASSUME NEW p \in Procs, Webhook(p) PROVE RunningLogged' /\ FiringDue'
  BY <1>7 DEF Webhook
<1>8. ASSUME NEW p \in Procs, Command(p) PROVE RunningLogged' /\ FiringDue'
  BY <1>8 DEF Command
<1>9. ASSUME NEW p \in Procs, Undelivered(p) PROVE RunningLogged' /\ FiringDue'
  BY <1>9 DEF Undelivered
<1>10. ASSUME NEW p \in Procs, LogFire(p) PROVE RunningLogged' /\ FiringDue'
  <2>1. FiringDue'
    BY <1>10, OneEvaluator DEF LogFire, OneEvaluator
  <2>2. RunningLogged'
    BY <1>10 DEF LogFire
  <2> QED
    BY <2>1, <2>2
<1>11. ASSUME NEW p \in Procs, LogFireFail(p) PROVE RunningLogged' /\ FiringDue'
  BY <1>11 DEF LogFireFail
<1>12. ASSUME NEW p \in Procs, Done(p) PROVE RunningLogged' /\ FiringDue'
  BY <1>12 DEF Done
<1>13. ASSUME NEW p \in Procs, Crash(p) PROVE RunningLogged' /\ FiringDue'
  BY <1>13 DEF Crash
<1>14. CASE UNCHANGED vars
  BY <1>14 DEF vars
<1> QED
  BY <1>1, <1>2, <1>3, <1>4, <1>5, <1>6, <1>7, <1>8, <1>9, <1>10, <1>11, <1>12,
     <1>13, <1>14 DEF Next, Evaluate

(* With one evaluating process and no cooldown longer than the retention,  *)
(* no alert is delivered again before its cooldown has elapsed: whatever   *)
(* is pruned, however long deliveries take, and across any restarts.       *)
THEOREM CooldownKept ==
    ASSUME OneEvaluator, LogOutlivesCooldowns
    PROVE  Spec => []CooldownHonoured
<1>1. Init => CooldownInv
  BY TypeInit DEF Init, CooldownInv, RunningLogged, FiringDue
<1>2. CooldownInv /\ [Next]_vars => CooldownInv'
  BY CooldownStep
<1>3. CooldownInv => CooldownHonoured
  BY DEF CooldownInv, FiringDue, CooldownHonoured
<1> QED
  BY <1>1, <1>2, <1>3, PTL DEF Spec

LEMMA ExplainedStep == TypeInv /\ LogExplained /\ [Next]_vars => LogExplained'
<1> SUFFICES ASSUME TypeInv, LogExplained, [Next]_vars PROVE LogExplained'
  OBVIOUS
<1> USE DEF LogExplained, TypeInv, Types
<1>1. ASSUME NEW p \in Procs, LogFire(p) PROVE LogExplained'
  <2> DEFINE f == [alert |-> i[p], at |-> now]
  <2>1. /\ f \in fired'
        /\ fired \subseteq fired'
        /\ log' = log \cup {[name |-> Name[i[p]], at |-> now]}
    BY <1>1 DEF LogFire
  <2> QED
    BY <2>1
<1>2. ASSUME NEW p \in Procs, Prune(p) PROVE LogExplained'
  BY <1>2 DEF Prune
<1>3. CASE log' = log /\ fired' = fired
  BY <1>3
<1> QED
  BY <1>1, <1>2, <1>3 DEF Next, Evaluate, Tick, PruneFail, Skip, Suppress, Fire,
     Webhook, Command, Undelivered, LogFireFail, Done, Crash, vars

(* If no two alerts share a name, an alert is held back only by a firing   *)
(* of its own that was delivered, and whose cooldown is running.           *)
THEOREM NeverSilenced ==
    ASSUME NamesDiffer
    PROVE  Spec => NotSilenced
<1> DEFINE Held(p) == Suppress(p) => \E f \in fired :
                          f.alert = i[p] /\ f.at + Cooldown[i[p]] > now
<1>1. Init => TypeInv /\ LogExplained
  BY TypeInit DEF Init, LogExplained
<1>2. TypeInv /\ LogExplained /\ [Next]_vars => (TypeInv /\ LogExplained)'
  BY TypeStep, ExplainedStep
<1>3. TypeInv /\ LogExplained => [\A p \in Procs : Held(p)]_vars
  <2> SUFFICES ASSUME TypeInv, LogExplained, NEW p \in Procs, Suppress(p)
               PROVE  \E f \in fired : f.alert = i[p] /\ f.at + Cooldown[i[p]] > now
    OBVIOUS
  <2>1. i[p] \in Nat /\ i[p] <= NumAlerts
    BY DEF Suppress, TypeInv, Types
  <2>2. PICK e \in log : e.name = Name[i[p]] /\ e.at > now - Cooldown[i[p]]
    BY DEF Suppress, OnCooldown
  <2>3. PICK f \in fired : Name[f.alert] = e.name /\ f.at = e.at
    BY <2>2 DEF LogExplained
  <2> QED
    BY <2>1, <2>2, <2>3, NamesDiffer, AlertsAssumption
    DEF NamesDiffer, TypeInv, Types, AlertIds
<1> QED
  BY <1>1, <1>2, <1>3, PTL DEF Spec, NotSilenced, Held
================================================================================
